---- MODULE Spec2Model ----
(***************************************************************************)
(* Media transfer between the Board System (monday) and the Page System    *)
(* (Notion): the request handlers of api/addMedia (board item -> page) and *)
(* api/notionToMonday (page webhook -> board item), the p-queue pool they  *)
(* share inside one warm process, the block crawler, the matcher and the   *)
(* name helpers.                                                           *)
(***************************************************************************)
EXTENDS Integers, Sequences, FiniteSets, TLC

VARIABLES
    tIn,        \* name helpers: the name given to the helper
    tHelper,    \* name helpers: which helper is applied
    tOnce,      \* name helpers: helper(name)
    tTwice,     \* name helpers: helper(helper(name))
    tStep,      \* name helpers: number of applications done
    variant,    \* the handler module this warm process runs
    board,      \* which row of the board stores the page URL
    bare,       \* the page holds a media block that carries no URL
    input,      \* input[r]: the request (method and body)
    pc,         \* pc[r]: where the handler of request r stands
    status,     \* status[r]: the HTTP status sent (0: no response yet)
    reply,      \* reply[r]: the body sent
    added,      \* added[r]: the count reported in a 200 body (-1: none)
    batch,      \* batch[r]: the references submitted to the pool
    task,       \* task[r][i]: the transfer task of reference i of request r
    waiting,    \* the pool's FIFO of tasks not yet started
    newFiles,   \* newFiles[r]: the entries pushed by the tasks of r
    calls,      \* the remote calls issued so far
    existing,   \* existing[r]: the attachment list r read from the page
    pageFiles,  \* the page's files property
    pageBlocks, \* the blocks appended to the page
    SEEN,       \* the process-wide set of block ids already taken
    media,      \* media[r]: the media blocks r collected from the page
    crawlAt,    \* crawlAt[r]: child-listing calls answered so far
    item,       \* item[r]: the board item the matcher returned
    itemFiles,  \* the files attached to board items by the webhook
    faults      \* number of remote failures injected so far

trimVars == <<tIn, tHelper, tOnce, tTwice, tStep>>
envVars  == <<variant, board, bare>>
poolVars == <<pc, status, reply, added, batch, task, waiting, newFiles, calls>>
pageVars == <<existing, pageFiles, pageBlocks>>
hookVars == <<SEEN, media, crawlAt, item, itemFiles>>
procVars == <<envVars, input, poolVars, pageVars, hookVars, faults>>
vars     == <<trimVars, procVars>>

(***************************************************************************)
(* Strings.  A name is a TLA+ string; Len, SubSeq and \o are JavaScript's  *)
(* length, slice and +.  The one-character ellipsis U+2026 of trim and     *)
(* trim100 is written "~" (one character, as in JavaScript).               *)
(***************************************************************************)
RECURSIVE Rep(_, _)
Rep(c, n) ==
    IF n <= 0 THEN ""
    ELSE LET half == Rep(c, n \div 2)
         IN  half \o half \o (IF n % 2 = 1 THEN c ELSE "")

EndsWith(s, suffix) ==
    /\ Len(s) >= Len(suffix)
    /\ SubSeq(s, Len(s) - Len(suffix) + 1, Len(s)) = suffix

\* n.slice(0, k)
Slice0(s, k) == SubSeq(s, 1, IF k < Len(s) THEN k ELSE Len(s))

NameLimit == 100
KeepLen   == 97
Dots3     == "..."
Ellipsis1 == "~"

\* a mutant of trimName: slices at the limit instead of limit - 3
trimNameSlice100(name) ==
    IF Len(name) <= NameLimit THEN name ELSE Slice0(name, NameLimit) \o Dots3

\* install.js: name.length <= 100 ? name : name.slice(0, 97) + '...'
trimName(name) ==
    IF Len(name) <= NameLimit THEN name ELSE Slice0(name, KeepLen) \o Dots3

\* install.ts (addMedia): n.length <= 100 ? n : n.slice(0, 97) + U+2026
trim(n) ==
    IF Len(n) <= NameLimit THEN n ELSE Slice0(n, KeepLen) \o Ellipsis1

\* part_001 (link-only addMedia): n.length <= 100 ? n : n.slice(0,97) + U+2026
trim100(n) ==
    IF Len(n) <= NameLimit THEN n ELSE Slice0(n, KeepLen) \o Ellipsis1

Helpers == {"trimName", "trim", "trim100"}

ApplyHelper(h, n) ==
    CASE h = "trimName" -> trimName(n)
      [] h = "trim"     -> trim(n)
      [] h = "trim100"  -> trim100(n)

\* the marker each helper appends
MarkerOf(h) == IF h = "trimName" THEN Dots3 ELSE Ellipsis1

(***************************************************************************)
(* Names given to the helpers: every length up to MaxNameLen, with the     *)
(* tails that matter to the helpers and to the extension rules.            *)
(***************************************************************************)
MaxNameLen == 150
NameTails  == {"", ".mp4", ".pdf", "...", "~"}

NameOf(n, tail) == Rep("x", n - Len(tail)) \o tail

TrimInputs == { NameOf(n, t) : n \in 4..MaxNameLen, t \in NameTails } \cup {""}


UpperCase == <<"A","B","C","D","E","F","G","H","I","J","K","L","M",
               "N","O","P","Q","R","S","T","U","V","W","X","Y","Z">>
LowerCase == <<"a","b","c","d","e","f","g","h","i","j","k","l","m",
               "n","o","p","q","r","s","t","u","v","w","x","y","z">>

LowerChar(c) ==
    IF \E k \in 1..Len(UpperCase) : UpperCase[k] = c
    THEN LowerCase[CHOOSE k \in 1..Len(UpperCase) : UpperCase[k] = c]
    ELSE c

\* s.toLowerCase()
RECURSIVE ToLower(_)
ToLower(s) ==
    IF Len(s) = 0 THEN ""
    ELSE IF Len(s) = 1 THEN LowerChar(s)
    ELSE LET h == Len(s) \div 2
         IN  ToLower(SubSeq(s, 1, h)) \o ToLower(SubSeq(s, h + 1, Len(s)))

\* s.includes(sub)
Includes(s, sub) ==
    \E k \in 1..(Len(s) - Len(sub) + 1) : SubSeq(s, k, k + Len(sub) - 1) = sub

(***************************************************************************)
(* JavaScript values of a request body, and the coercions the handlers     *)
(* apply to them.                                                          *)
(***************************************************************************)
Undef  == [t |-> "undefined"]
NaN    == [t |-> "NaN"]
Num(n) == [t |-> "number", n |-> n]
Str(x) == [t |-> "string", s |-> x]

\* Number(v): the strings of the model ('abc') are not numerals
ToNumber(v) == IF v.t = "number" THEN v ELSE NaN

\* !v is false
Truthy(v) ==
    CASE v.t = "number" -> v.n # 0
      [] v.t = "string" -> v.s # ""
      [] OTHER          -> FALSE

(***************************************************************************)
(* The handler modules.  Each warm process runs one of them.               *)
(*   installJs      : api/install.js        trimName, merge + append       *)
(*   merge          : install.ts 484-604, part_003, part_001 96-194        *)
(*                                          no trimming, merge + append    *)
(*   addMedia       : install.ts 340-482    upload() may return null,      *)
(*                                          preview blocks only            *)
(*   hookSimple     : api/notionToMonday.js one listing of the page        *)
(*   hookNoHandshake: part_002              as hookSimple, but without the *)
(*                                          handshake branch               *)
(*   hookCrawl      : part_004 138-317      crawlBlocks, exact matcher     *)
(*   hookCrawlLoose : part_000              crawl, exact-then-loose        *)
(***************************************************************************)
FwdVariants   == {"installJs", "merge", "addMedia"}
MergeVariants == {"installJs", "merge"}
CrawlVariants == {"hookCrawl", "hookCrawlLoose"}
\* one listing of the page's children, a throw on a block without URL
FlatVariants  == {"hookSimple", "hookNoHandshake"}
HookVariants  == FlatVariants \cup CrawlVariants
Variants      == FwdVariants \cup HookVariants

\* the requests of one run: two, so that requests can overlap
Reqs == {1, 2}

\* new PQueue({ concurrency: 3 })
Concurrency == 3
\* if (depth > 2) return
MaxDepth == 2
\* 20 * 1024 * 1024
MiB20 == 20 * 1024 * 1024

\* bounds of the model
BatchSize == 4      \* assets of board item 1
MaxTasks  == 5      \* references submitted to the pool in one run
MaxFaults == 1      \* remote failures injected in one run
TreeDepth == 5      \* levels of nested blocks below the page

(***************************************************************************)
(* The Board System's content: item 1 holds BatchSize assets, item 2 half  *)
(* as many, item 3 does not exist.  The declared file_size of an asset is  *)
(* not the length its URL serves.                                          *)
(***************************************************************************)
LongMp4 == NameOf(MaxNameLen, ".mp4")
LongPdf == NameOf(MaxNameLen, ".pdf")

AssetKinds == <<
    [name |-> "clip.mp4",  bytes |-> MiB20,     file_size |-> MiB20 + 1],
    [name |-> LongMp4,     bytes |-> MiB20 + 1, file_size |-> 1000],
    [name |-> LongPdf,     bytes |-> 1000,      file_size |-> 1000],
    [name |-> "photo.PNG", bytes |-> 2 * MiB20, file_size |-> 0] >>

AssetCount(it) ==
    IF it = 1 THEN BatchSize ELSE IF it = 2 THEN BatchSize \div 2 ELSE 0

MkAsset(it, k) ==
    LET kind == AssetKinds[((k - 1 + 2 * (it - 1)) % Len(AssetKinds)) + 1]
    IN  [id         |-> <<it, k>>,
         name       |-> kind.name,
         public_url |-> <<"cdn", it, k>>,
         file_size  |-> kind.file_size,
         bytes      |-> kind.bytes]

ItemAssets(it) == [k \in 1..AssetCount(it) |-> MkAsset(it, k)]

ItemIds     == {1, 2}
UnknownItem == 3
\* an item of the board that holds no file at all
EmptyItem   == 4
BoardItems  == ItemIds \cup {EmptyItem}

(***************************************************************************)
(* The board rows the matcher searches.  The page's URL has an upper-case  *)
(* letter; the row stores it exactly, or lower-cased, or not at all.       *)
(***************************************************************************)
PageUrl == "https://notion.so/Page-P"

BoardRows(b) ==
    CASE b = "exact" -> << [id |-> 7, text |-> PageUrl] >>
      [] b = "loose" -> << [id |-> 8, text |-> ToLower(PageUrl)] >>
      [] OTHER       -> << [id |-> 9, text |-> "https://notion.so/Other"] >>

Boards == {"exact", "loose", "none"}

\* a mutant of RowsMatching: the query returns the board's first page of rows
RowsMatchingAny(b, value) == BoardRows(b)

\* items_page_by_column_values: the rows whose column holds the value
RowsMatching(b, value) == SelectSeq(BoardRows(b), LAMBDA row : row.text = value)

\* the matcher's answer from the rows the query returned (0: null)
MatchIn(hits, value, exact) ==
    IF hits = <<>> THEN 0
    ELSE IF exact THEN hits[1].id
    ELSE LET ok == SelectSeq(hits, LAMBDA it : Includes(ToLower(it.text), value))
         IN  IF ok = <<>> THEN 0 ELSE ok[1].id

\* a mutant of findMondayItem: the exact pass searches loosely as well
findMondayItemLooseOnly(b, url, exact) ==
    MatchIn(RowsMatching(b, ToLower(url)), ToLower(url), FALSE)

\* findMondayItem(url, exact) of part_000; the other modules query exactly
findMondayItem(b, url, exact) ==
    LET value == IF exact THEN url ELSE ToLower(url)
    IN  MatchIn(RowsMatching(b, value), value, exact)


(***************************************************************************)
(* The Page System's content seen by the webhook handlers: a page whose    *)
(* blocks nest TreeDepth levels deep, a media block at every level.  The   *)
(* chain block of level L is block L + 1; the page's own children come in  *)
(* two result pages: the chain's head and a toggle, then a video that      *)
(* refers to a file-upload handle and, on some pages, an audio block that  *)
(* carries no URL at all.                                                  *)
(***************************************************************************)
RootPage    == 0
ToggleBlock == TreeDepth + 1
VideoBlock  == TreeDepth + 2
BareBlock   == TreeDepth + 3
BlockIds    == 1..TreeDepth + 3

MediaTypes == <<"image", "file", "pdf", "audio", "video">>
SrcKinds   == <<"external", "file">>

Block(b) ==
    IF b = ToggleBlock
    THEN [id |-> b, type |-> "toggle", has_children |-> FALSE, level |-> 0,
          src |-> "none"]
    ELSE IF b = VideoBlock
    THEN [id |-> b, type |-> "video", has_children |-> FALSE, level |-> 0,
          src |-> "file_upload"]
    ELSE IF b = BareBlock
    THEN [id |-> b, type |-> "audio", has_children |-> FALSE, level |-> 0,
          src |-> "none"]
    ELSE [id |-> b, type |-> MediaTypes[((b - 1) % Len(MediaTypes)) + 1],
          has_children |-> b < TreeDepth, level |-> b - 1,
          src |-> SrcKinds[((b - 1) % Len(SrcKinds)) + 1]]

\* the result pages blocks.children.list returns for a block
ChildPages(b) ==
    IF b = RootPage
    THEN << <<1, ToggleBlock>> \o (IF bare THEN <<BareBlock>> ELSE <<>>),
            <<VideoBlock>> >>
    ELSE IF b \in 1..TreeDepth - 1 THEN << <<b + 1>> >>
    ELSE << <<>> >>

\* ['image','video','file','pdf','audio'].includes(b.type)
IsMedia(b) == Block(b).type \in {"image", "video", "file", "pdf", "audio"}

ListCall(r, b, p) ==
    [op |-> "blocks.list", req |-> r, ref |-> b, names |-> <<>>, page |-> p,
     nth |-> 1]

\* the same remote operation: same kind, same request, same reference
SameCall(c, d) ==
    c.op = d.op /\ c.req = d.req /\ c.ref = d.ref /\ c.page = d.page

\* a remote call is issued: it is recorded with the number of times the
\* request has issued this operation, this one included
Issue(cs, c) ==
    cs \cup {[c EXCEPT !.nth = 1 + Cardinality({d \in cs : SameCall(c, d)})]}

\* a mutant of DepthCut: one level deeper
DepthCutDeeper(depth) == depth > MaxDepth + 1

\* if (depth > 2) return
DepthCut(depth) == depth > MaxDepth

\* a mutant of Recurse: every block is descended into
RecurseAlways(b) == TRUE

\* if (b.has_children) await crawl(b.id, depth + 1, out)
Recurse(b) == Block(b).has_children

\* a mutant of HasMore: the cursor is never followed
HasMoreNever(pages, p) == FALSE

\* cursor = has_more ? next_cursor : undefined;  while (cursor)
HasMore(pages, p) == p < Len(pages)

(***************************************************************************)
(* crawl(blockId, depth, out): acc.log is the sequence of child-listing    *)
(* calls issued (block, result page), acc.out the media blocks pushed.     *)
(***************************************************************************)
RECURSIVE crawl(_, _, _), CrawlPage(_, _, _, _), CrawlResults(_, _, _, _)
crawl(blockId, depth, acc) ==
    IF DepthCut(depth) THEN acc ELSE CrawlPage(blockId, depth, 1, acc)

\* one turn of the do-while: list a result page, walk it, follow the cursor
CrawlPage(blockId, depth, p, acc) ==
    LET pages  == ChildPages(blockId)
        listed == [acc EXCEPT !.log = Append(@, <<blockId, p>>)]
        walked == CrawlResults(pages[p], 1, depth, listed)
    IN  IF HasMore(pages, p)
        THEN CrawlPage(blockId, depth, p + 1, walked)
        ELSE walked

\* a mutant of CrawlResults: a block is pushed after its descendants
CrawlResultsPostOrder(results, k, depth, acc) ==
    IF k > Len(results) THEN acc
    ELSE LET b      == results[k]
             below  == IF Recurse(b) THEN crawl(b, depth + 1, acc) ELSE acc
             pushed == IF IsMedia(b) THEN [below EXCEPT !.out = Append(@, b)]
                       ELSE below
         IN  CrawlResults(results, k + 1, depth, pushed)

\* for (const b of results)
CrawlResults(results, k, depth, acc) ==
    IF k > Len(results) THEN acc
    ELSE LET b      == results[k]
             pushed == IF IsMedia(b) THEN [acc EXCEPT !.out = Append(@, b)] ELSE acc
             below  == IF Recurse(b) THEN crawl(b, depth + 1, pushed) ELSE pushed
         IN  CrawlResults(results, k + 1, depth, below)

EmptyCrawl == [log |-> <<>>, out |-> <<>>]

\* notionToMonday.js: one listing of the page's children, first result page
ListOnce(pageId) ==
    LET results == ChildPages(pageId)[1]
    IN  [log |-> << <<pageId, 1>> >>,
         out |-> SelectSeq(results, IsMedia)]

\* what the handler of variant v collects from the page: the listing calls
\* it awaits one after the other, and the media blocks it ends with
CrawlPlan(v) ==
    IF v \in CrawlVariants THEN crawl(RootPage, 0, EmptyCrawl) ELSE ListOnce(RootPage)

(***************************************************************************)
(* Requests.                                                               *)
(***************************************************************************)
PageId == Str("P")

Request(m, i, p) == [method |-> m, itemId |-> i, pageId |-> p]

\* req.body is undefined (a POST that carries no body): reading any field
\* of it throws a TypeError
NoBody == [t |-> "no body"]

FwdInputs ==
    { Request("POST", i, PageId) :
        i \in {Num(1), Num(2), Num(UnknownItem), Num(EmptyItem), Str("abc"),
               Undef} }
    \cup { Request("GET", Num(1), PageId), Request("POST", Num(1), Undef),
           Request("POST", NoBody, NoBody) }

\* const itemId = Number(req.body.itemId)   (install.js 76)
\* const { itemId, pageId } = req.body      (addMedia, install.ts 416)
ItemIdOf(v, in) == IF v = "addMedia" THEN in.itemId ELSE ToNumber(in.itemId)

\* if (!itemId || !pageId) return res.status(400)
ValidInput(v, in) == Truthy(ItemIdOf(v, in)) /\ Truthy(in.pageId)

\* a webhook delivery: method, evt.type, evt.challenge, evt.data?.challenge
Event(m, t, c, d) == [method |-> m, type |-> t, challenge |-> c, data |-> d]

HookInputs ==
    { Event("POST", Str("page.content_updated"), Undef, Undef),
      Event("POST", Str("url_verification"), Str("tok"), Undef),
      Event("POST", Str("url_verification"), Undef, Str("tok2")),
      Event("POST", Str("page.content_updated"), Str("tok"), Undef),
      Event("POST", Str("page.created"), Undef, Undef),
      Event("HEAD", Undef, Undef, Undef),
      Event("GET", Undef, Undef, Undef),
      Event("POST", NoBody, NoBody, NoBody) }

\* evt.type === 'url_verification' || evt.challenge
IsHandshake(evt) == evt.type = Str("url_verification") \/ Truthy(evt.challenge)

\* evt.challenge || evt.data?.challenge
Challenge(evt) == IF Truthy(evt.challenge) THEN evt.challenge ELSE evt.data

\* the modules that answer the handshake; part_002 has no such branch
AnswersHandshake(v) == v # "hookNoHandshake"

\* the body of res.status(200).json({ challenge })
ChallengeBody(c) == IF c.t = "string" THEN "challenge:" \o c.s ELSE "{}"

\* evt.type !== 'page.content_updated' is false
IsContentUpdate(evt) == evt.type = Str("page.content_updated")

(***************************************************************************)
(* Transfer tasks and the pool.  A task is in flight from the moment the   *)
(* pool starts it until its promise settles.                               *)
(***************************************************************************)
InFlight == {"dl", "create", "send", "deref", "post"}

NewTask == [stage |-> "queued", buf |-> -1, up |-> "none"]

TaskIds(t) == UNION { { <<r, i>> : i \in 1..Len(t[r]) } : r \in Reqs }

Running(t) == Cardinality({ id \in TaskIds(t) : t[id[1]][id[2]].stage \in InFlight })

\* a mutant of HasFreeSlot: the pool admits whatever is queued
HasFreeSlotUnbounded(t) == TRUE

\* a mutant of HasFreeSlot: every request has a pool of its own
HasFreeSlotPerRequest(t) ==
    \E r \in DOMAIN t :
        Cardinality({ i \in DOMAIN t[r] : t[r][i].stage \in InFlight }) < Concurrency

\* p-queue starts a job only while fewer than `concurrency` are pending
HasFreeSlot(t) == Running(t) < Concurrency

Call(op, r, i, names) ==
    [op |-> op, req |-> r, ref |-> i, names |-> names, page |-> 0, nth |-> 1]

\* a mutant of FitsEmbedded: strict comparison
FitsEmbeddedStrict(len) == len < MiB20

\* a mutant of FitsEmbedded: the size test is dropped
FitsEmbeddedAlways(len) == TRUE

\* buf.length <= 20 * 1024 * 1024
FitsEmbedded(len) == len <= MiB20

\* the filename uploadToNotion / upload puts in the handle-creation request
UploadName(v, name) == IF v = "installJs" THEN trimName(name) ELSE name

\* the name of the entry pushed for an uploaded file
EmbeddedName(v, name) == IF v = "installJs" THEN trimName(name) ELSE name

\* the name of the entry pushed for a file kept external
LinkedName(v, name) ==
    CASE v = "installJs" -> trimName(name)
      [] v = "addMedia"  -> trim(name)
      [] OTHER           -> name

FileUploadId(r, i) == <<"file_upload", r, i>>

EmbeddedEntry(v, r, i, a) ==
    [name |-> EmbeddedName(v, a.name), type |-> "file_upload", ptr |-> FileUploadId(r, i)]

LinkedEntry(v, a) ==
    [name |-> LinkedName(v, a.name), type |-> "external", ptr |-> a.public_url]

\* a mutant of StartTask: the transfer asks for the upload handle first
StartTaskCreatesFirst(s, v, id) ==
    LET r == id[1]
        i == id[2]
    IN  IF v \in FwdVariants
        THEN [s EXCEPT !.task[r][i].stage = "create",
                       !.calls = Issue(@, Call("file_uploads.create", r, i, <<>>))]
        ELSE [s EXCEPT !.task[r][i].stage = "dl",
                       !.calls = Issue(@, Call("download", r, i, <<>>))]

\* a mutant of StartTask: the handle of a block is not dereferenced
StartTaskSkipsDeref(s, v, id) ==
    LET r == id[1]
        i == id[2]
    IN  IF v \in HookVariants /\ Block(s.batch[r][i]).src = "none"
        THEN [s EXCEPT !.task[r][i].stage =
                          IF v \in FlatVariants THEN "failed" ELSE "done"]
        ELSE [s EXCEPT !.task[r][i].stage = "dl",
                       !.calls = Issue(@, Call("download", r, i, <<>>))]

\* the task starts and runs up to its first await: the download (endpoint
\* A); the handle retrieval or the download (webhook), where a block
\* without any URL ends the task at once: a throw (notionToMonday.js) or a
\* plain return (the crawling modules)
StartTask(s, v, id) ==
    LET r == id[1]
        i == id[2]
    IN  IF v \in FwdVariants
        THEN [s EXCEPT !.task[r][i].stage = "dl",
                       !.calls = Issue(@, Call("download", r, i, <<>>))]
        ELSE LET src == Block(s.batch[r][i]).src
             IN  IF src = "file_upload"
                 THEN [s EXCEPT !.task[r][i].stage = "deref",
                                !.calls = Issue(@,
                                    Call("file_uploads.retrieve", r, i, <<>>))]
                 ELSE IF src = "none"
                 THEN [s EXCEPT !.task[r][i].stage =
                                   IF v \in FlatVariants THEN "failed" ELSE "done"]
                 ELSE [s EXCEPT !.task[r][i].stage = "dl",
                                !.calls = Issue(@, Call("download", r, i, <<>>))]

\* p-queue _tryToStartAnother: dequeue in FIFO order while a slot is free
RECURSIVE Admit(_, _)
Admit(s, v) ==
    IF s.waiting = <<>> \/ ~HasFreeSlot(s.task) THEN s
    ELSE Admit(StartTask([s EXCEPT !.waiting = Tail(@)], v, Head(s.waiting)), v)

\* a mutant of Rejects: the queued tasks of the batch are dropped
RejectsCancels(s, r, i) ==
    [s EXCEPT !.task[r][i].stage = "failed",
              !.waiting = SelectSeq(@, LAMBDA id : id[1] # r)]

\* a mutant of Rejects: the failed task is put back in the queue
RejectsRetry(s, r, i) ==
    [s EXCEPT !.task[r][i].stage = "queued", !.waiting = Append(@, <<r, i>>)]

\* the promise of task i of request r rejects: nothing catches the error
\* inside the task, nothing runs the task again
Rejects(s, r, i) == [s EXCEPT !.task[r][i].stage = "failed"]

\* a mutant of BatchRejected: rejections are swallowed (allSettled)
BatchRejectedNever(t, r) == FALSE

\* Promise.all rejects as soon as one task has rejected
BatchRejected(t, r) == \E i \in 1..Len(t[r]) : t[r][i].stage = "failed"

\* a mutant of BatchResolved: the handler does not wait for its tasks
BatchResolvedAlways(t, r) == TRUE

\* Promise.all resolves once every task has resolved
BatchResolved(t, r) == \A i \in 1..Len(t[r]) : t[r][i].stage = "done"

BlockNames(files) == [k \in 1..Len(files) |-> files[k].name]

\* the handler of r resumes after `await Promise.all(...)`
Resume(s, v, r) ==
    IF s.pc[r] # "batch" THEN s
    ELSE IF BatchRejected(s.task, r)
    THEN [s EXCEPT !.pc[r] = "done", !.status[r] = 500, !.reply[r] = "error"]
    ELSE IF ~BatchResolved(s.task, r) THEN s
    ELSE IF v \in HookVariants             \* { ok:true, added: fresh.length }
    THEN [s EXCEPT !.pc[r] = "done", !.status[r] = 200, !.reply[r] = "ok",
                   !.added[r] = Len(s.batch[r])]
    ELSE IF v \in MergeVariants
    THEN [s EXCEPT !.pc[r] = "retrieve",
                   !.calls = Issue(@, Call("pages.retrieve", r, 0, <<>>))]
    ELSE IF s.newFiles[r] # <<>>           \* addMedia: if (children.length)
    THEN [s EXCEPT !.pc[r] = "append",
                   !.calls = Issue(@, Call("blocks.append", r, 0, <<>>))]
    ELSE [s EXCEPT !.pc[r] = "done", !.status[r] = 200, !.reply[r] = "ok",
                   !.added[r] = 0]

RECURSIVE ResumeAll(_, _, _)
ResumeAll(s, v, rs) ==
    IF rs = {} THEN s
    ELSE LET r == CHOOSE x \in rs : TRUE
         IN  ResumeAll(Resume(s, v, r), v, rs \ {r})

\* what a step of the pool may change
Pool == [pc |-> pc, status |-> status, reply |-> reply, added |-> added,
         batch |-> batch, task |-> task, waiting |-> waiting,
         newFiles |-> newFiles, calls |-> calls]

\* a task settled or a batch was submitted: start what can start, resume
\* the handlers whose batch is decided
Settle(s) == ResumeAll(Admit(s, variant), variant, Reqs)

Commit(s) ==
    /\ pc' = s.pc
    /\ status' = s.status
    /\ reply' = s.reply
    /\ added' = s.added
    /\ batch' = s.batch
    /\ task' = s.task
    /\ waiting' = s.waiting
    /\ newFiles' = s.newFiles
    /\ calls' = s.calls

\* the handler of r submits its batch: fresh.map(b => queue.add(...))
Submit(s, r, refs) ==
    [s EXCEPT !.batch[r] = refs,
              !.task[r] = [i \in 1..Len(refs) |-> NewTask],
              !.waiting = @ \o [i \in 1..Len(refs) |-> <<r, i>>],
              !.pc[r] = "batch"]

Fault == faults < MaxFaults /\ faults' = faults + 1
NoFault == UNCHANGED faults

\* a mutant of Respond: every answer is a 200
RespondOkAlways(r, code, text) ==
    /\ pc' = [pc EXCEPT ![r] = "done"]
    /\ status' = [status EXCEPT ![r] = 200]
    /\ reply' = [reply EXCEPT ![r] = text]

\* res.status(code) and the body
Respond(r, code, text) ==
    /\ pc' = [pc EXCEPT ![r] = "done"]
    /\ status' = [status EXCEPT ![r] = code]
    /\ reply' = [reply EXCEPT ![r] = text]

\* the async handler throws outside its try: its promise rejects and no
\* method of res is called
Unhandled(r) ==
    /\ pc' = [pc EXCEPT ![r] = "threw"]
    /\ UNCHANGED <<status, reply>>

\* No other request is under way.  A request that submits nothing to the
\* pool shares no state with the other requests, its steps commute with
\* theirs, and it is received only here.
Quiet == \A q \in Reqs : pc[q] \in {"idle", "done", "threw"}

\* requests are numbered in the order they arrive
NextToArrive(r) == pc[r] = "idle" /\ \A q \in Reqs : q < r => pc[q] # "idle"

(***************************************************************************)
(* Endpoint A (board item -> page): the handler.                           *)
(***************************************************************************)
\* the item a request names, as the Board System reads it (0: not an id)
ItemOf(v, in) ==
    LET id == ItemIdOf(v, in)
    IN  IF id.t = "number" THEN id.n ELSE 0

\* the references of the requests received so far
RECURSIVE PlannedOf(_)
PlannedOf(rs) ==
    IF rs = {} THEN 0
    ELSE LET r == CHOOSE x \in rs : TRUE
         IN  (IF pc[r] \in {"idle", "done", "threw"} /\ batch[r] = <<>> THEN 0
              ELSE AssetCount(ItemOf(variant, input[r]))) + PlannedOf(rs \ {r})
Planned == PlannedOf(Reqs)

\* the request names an item of the board, so it will submit references
Transfers(v, in) ==
    in.method = "POST" /\ ValidInput(v, in) /\ ItemOf(v, in) \in ItemIds

\* the request arrives: method and body checks, then the asset query
Receive(r) ==
    /\ variant \in FwdVariants
    /\ NextToArrive(r)
    /\ \E in \in FwdInputs :
        /\ input' = [input EXCEPT ![r] = in]
        /\ Transfers(variant, in) \/ Quiet
        /\ IF in.method # "POST"
           THEN Respond(r, 405, "POST only") /\ UNCHANGED calls
           ELSE IF in.itemId = NoBody      \* req.body.itemId throws
           THEN Unhandled(r) /\ UNCHANGED calls
           ELSE IF ~ValidInput(variant, in)
           THEN Respond(r, 400, "itemId or pageId missing") /\ UNCHANGED calls
           ELSE /\ Planned + AssetCount(ItemOf(variant, in)) <= MaxTasks
                /\ pc' = [pc EXCEPT ![r] = "assets"]
                /\ calls' = Issue(calls, Call("assets.query", r, 0, <<>>))
                /\ UNCHANGED <<status, reply>>
    /\ UNCHANGED <<trimVars, envVars, added, batch, task, waiting, newFiles,
                   pageVars, hookVars, faults>>

\* the item the query names, as the Board System reads it
QueriedItem(r) == ItemOf(variant, input[r])

\* the Board System answers the asset query with the item's assets
AssetsFound(r) ==
    /\ variant \in FwdVariants
    /\ pc[r] = "assets"
    /\ QueriedItem(r) \in BoardItems
    /\ Commit(Settle(Submit(Pool, r, ItemAssets(QueriedItem(r)))))
    /\ UNCHANGED <<trimVars, envVars, input, pageVars, hookVars, faults>>

\* the Board System knows no such item: data.items is empty
AssetsNoItem(r) ==
    /\ variant \in FwdVariants
    /\ pc[r] = "assets"
    /\ QueriedItem(r) = UnknownItem
    /\ IF variant = "addMedia"
       THEN \* r.data.items[0]?.assets || []  : an empty batch, no children
            /\ Respond(r, 200, "ok")
            /\ added' = [added EXCEPT ![r] = 0]
       ELSE \* resp.data.items[0].assets throws a TypeError
            /\ Respond(r, 500, "error")
            /\ UNCHANGED added
    /\ UNCHANGED <<trimVars, envVars, input, batch, task, waiting, newFiles,
                   calls, pageVars, hookVars, faults>>

\* the answer of the Board System to a query it rejects
ErrorPayload == [errors |-> << [message |-> "board: query rejected"] >>,
                 data   |-> Undef]

\* a mutant of ListerThrows: the errors of the answer are not looked at
ListerThrowsNever(resp) == FALSE

\* if (resp.errors) throw new Error(resp.errors[0].message)
ListerThrows(resp) == resp.errors # <<>>

\* the Board System answers the asset query with an error payload (the
\* identifier is not an id, or the query is refused): the lister throws
\* and the handler's catch answers 500 with e.message; were the errors not
\* tested, reading resp.data.items would throw a TypeError instead
AssetsError(r) ==
    /\ variant \in FwdVariants
    /\ pc[r] = "assets"
    /\ \/ QueriedItem(r) = 0 /\ NoFault
       \/ Fault
    /\ IF ListerThrows(ErrorPayload)
       THEN Respond(r, 500, ErrorPayload.errors[1].message)
       ELSE Respond(r, 500, "TypeError")
    /\ UNCHANGED <<trimVars, envVars, input, added, batch, task, waiting,
                   newFiles, calls, pageVars, hookVars>>

(***************************************************************************)
(* Endpoint A: the transfer task of reference i of request r.              *)
(***************************************************************************)
Stage(r, i) == task[r][i].stage

\* a mutant of Finish: the entry replaces what the other tasks pushed
FinishAlone(r, i, stage, pushed) ==
    Commit(Settle([Pool EXCEPT !.task[r][i].stage = stage,
                               !.newFiles[r] = pushed]))

\* a task settles: its stage, the entry it pushed (if any)
Finish(r, i, stage, pushed) ==
    Commit(Settle([Pool EXCEPT !.task[r][i].stage = stage,
                               !.newFiles[r] = @ \o pushed]))

\* what a step of a task of endpoint A leaves alone
FwdTaskFrame == UNCHANGED <<trimVars, envVars, input, pageVars, hookVars>>

\* the download completes with the bytes the URL serves
DownloadOk(r, i) ==
    /\ variant \in FwdVariants
    /\ i \in 1..Len(task[r])
    /\ Stage(r, i) = "dl"
    /\ LET a == batch[r][i] IN
       IF FitsEmbedded(a.bytes)
       THEN Commit([Pool EXCEPT
                 !.task[r][i].stage = "create",
                 !.task[r][i].buf = a.bytes,
                 !.calls = Issue(@, Call("file_uploads.create", r, i,
                                        <<UploadName(variant, a.name)>>))])
       ELSE Commit(Settle([Pool EXCEPT
                 !.task[r][i].stage = "done",
                 !.task[r][i].buf = a.bytes,
                 !.newFiles[r] = Append(@, LinkedEntry(variant, a))]))
    /\ NoFault
    /\ FwdTaskFrame

\* fetch(a.public_url) rejects
DownloadFail(r, i) ==
    /\ variant \in FwdVariants
    /\ i \in 1..Len(task[r])
    /\ Stage(r, i) = "dl"
    /\ Fault
    /\ Commit(Settle(Rejects(Pool, r, i)))
    /\ FwdTaskFrame

\* the Page System creates the upload handle
CreateOk(r, i) ==
    /\ variant \in FwdVariants
    /\ i \in 1..Len(task[r])
    /\ Stage(r, i) = "create"
    /\ Commit([Pool EXCEPT
          !.task[r][i].stage = "send",
          !.task[r][i].up = "ok",
          !.calls = Issue(@, Call("file_uploads.send", r, i, <<>>))])
    /\ NoFault
    /\ FwdTaskFrame

\* a mutant of CreateRejected: no module falls back to a link
CreateRejectedFails(r, i) ==
    /\ variant \in FwdVariants
    /\ i \in 1..Len(task[r])
    /\ Stage(r, i) = "create"
    /\ Fault
    /\ Commit(Settle(Rejects([Pool EXCEPT !.task[r][i].up = "rejected"], r, i)))
    /\ FwdTaskFrame

\* the Page System rejects the handle creation: an error object, no upload_url
CreateRejected(r, i) ==
    /\ variant \in FwdVariants
    /\ i \in 1..Len(task[r])
    /\ Stage(r, i) = "create"
    /\ Fault
    /\ IF variant = "addMedia"
       THEN \* upload() returns null: fallback, external link
            Commit(Settle([Pool EXCEPT
                 !.task[r][i].stage = "done",
                 !.task[r][i].up = "null",
                 !.newFiles[r] = Append(@, LinkedEntry(variant, batch[r][i]))]))
       ELSE \* fetch(create.upload_url) with no URL rejects
            Commit(Settle(Rejects([Pool EXCEPT !.task[r][i].up = "rejected"],
                                  r, i)))
    /\ FwdTaskFrame

\* the handle-creation request itself fails
CreateFail(r, i) ==
    /\ variant \in FwdVariants
    /\ i \in 1..Len(task[r])
    /\ Stage(r, i) = "create"
    /\ Fault
    /\ Commit(Settle(Rejects(Pool, r, i)))
    /\ FwdTaskFrame

\* the bytes are sent to the handle's upload target
SendOk(r, i) ==
    /\ variant \in FwdVariants
    /\ i \in 1..Len(task[r])
    /\ Stage(r, i) = "send"
    /\ NoFault
    /\ Finish(r, i, "done", <<EmbeddedEntry(variant, r, i, batch[r][i])>>)
    /\ FwdTaskFrame

\* the byte-stream request fails
SendFail(r, i) ==
    /\ variant \in FwdVariants
    /\ i \in 1..Len(task[r])
    /\ Stage(r, i) = "send"
    /\ Fault
    /\ Commit(Settle(Rejects(Pool, r, i)))
    /\ FwdTaskFrame

(***************************************************************************)
(* Endpoint A: the Page-System writer.                                     *)
(***************************************************************************)
\* name.match(/\.mp4$/i)
MatchesMp4(name) ==
    Len(name) >= 4 /\ ToLower(SubSeq(name, Len(name) - 3, Len(name))) = ".mp4"

ImageExts == {".jpg", ".jpeg", ".png", ".gif", ".webp", ".tif", ".tiff"}

\* blockForFile: the block type from the lower-cased name's ending
blockForFile(file) ==
    LET ext     == ToLower(file.name)
        isVideo == EndsWith(ext, ".mp4")
        isImage == \E e \in ImageExts : EndsWith(ext, e)
    IN  [type |-> IF isVideo THEN "video" ELSE IF isImage THEN "image" ELSE "file",
         file |-> [type |-> file.type, ptr |-> file.ptr]]

\* the preview block of the merge handlers: video for .mp4, image otherwise
PreviewBlock(f) ==
    [type |-> IF MatchesMp4(f.name) THEN "video" ELSE "image", file |-> f]

\* a mutant of Children: only the uploaded files get a preview block
ChildrenOfUploads(v, files) ==
    LET fs == SelectSeq(files, LAMBDA f : f.type = "file_upload")
    IN  [k \in 1..Len(fs) |->
            IF v = "addMedia" THEN blockForFile(fs[k]) ELSE PreviewBlock(fs[k])]

\* const children = newFiles.map(...): one block per entry, in order
Children(v, files) ==
    [k \in 1..Len(files) |->
        IF v = "addMedia" THEN blockForFile(files[k]) ELSE PreviewBlock(files[k])]

\* page.properties.files?.files || []
ExistingFiles(page) == IF page.present THEN page.files ELSE <<>>

\* a mutant of Merged: the new files replace the list
MergedReplace(old, new) == new

\* a mutant of Merged: a file whose name is on the list is not added again
MergedOnce(old, new) ==
    old \o SelectSeq(new, LAMBDA e : \A k \in DOMAIN old : old[k].name # e.name)

\* [...existing, ...newFiles]
Merged(old, new) == old \o new

\* a mutant of WrittenList: the union is taken with the list as it is now
WrittenListFresh(r) == Merged(ExistingFiles(pageFiles), newFiles[r])

\* the list pages.update writes: the union computed from r's own read
WrittenList(r) == Merged(existing[r], newFiles[r])

\* what a step of the writer leaves alone
WriterFrame == UNCHANGED <<trimVars, envVars, input, batch, task, waiting,
                           newFiles, hookVars>>

\* notion.pages.retrieve answers; the update is sent with the merged list
RetrieveOk(r) ==
    /\ variant \in MergeVariants
    /\ pc[r] = "retrieve"
    /\ existing' = [existing EXCEPT ![r] = ExistingFiles(pageFiles)]
    /\ pc' = [pc EXCEPT ![r] = "update"]
    /\ calls' = Issue(calls, Call("pages.update", r, 0,
               BlockNames(Merged(ExistingFiles(pageFiles), newFiles[r]))))
    /\ NoFault
    /\ WriterFrame
    /\ UNCHANGED <<status, reply, added, pageFiles, pageBlocks>>

\* notion.pages.update is applied; the preview blocks are sent
UpdateOk(r) ==
    /\ variant \in MergeVariants
    /\ pc[r] = "update"
    /\ pageFiles' = [present |-> TRUE, files |-> WrittenList(r)]
    /\ pc' = [pc EXCEPT ![r] = "append"]
    /\ calls' = Issue(calls, Call("blocks.append", r, 0, <<>>))
    /\ NoFault
    /\ WriterFrame
    /\ UNCHANGED <<status, reply, added, existing, pageBlocks>>

\* notion.blocks.children.append is applied; the handler answers 200
AppendOk(r) ==
    /\ variant \in FwdVariants
    /\ pc[r] = "append"
    /\ pageBlocks' = pageBlocks \o Children(variant, newFiles[r])
    /\ Respond(r, 200, "ok")
    /\ added' = [added EXCEPT ![r] = Len(newFiles[r])]
    /\ NoFault
    /\ WriterFrame
    /\ UNCHANGED <<calls, existing, pageFiles>>

\* a call of the writer fails: the handler's catch answers 500
WriterFail(r) ==
    /\ variant \in FwdVariants
    /\ pc[r] \in {"retrieve", "update", "append"}
    /\ Fault
    /\ Respond(r, 500, "error")
    /\ WriterFrame
    /\ UNCHANGED <<added, calls, pageVars>>

(***************************************************************************)
(* Endpoint B (page webhook -> board item): the handler.                   *)
(***************************************************************************)
\* what a step of the webhook handler before its batch leaves alone
HookFrame == UNCHANGED <<trimVars, envVars, added, batch, task, waiting,
                         newFiles, pageVars, itemFiles>>

\* the listing calls the handler awaits and the media it ends with
Plan == CrawlPlan(variant)

\* the delivery arrives: method, handshake and event-type checks, then the
\* page is retrieved
HookReceive(r) ==
    /\ variant \in HookVariants
    /\ NextToArrive(r)
    /\ \E evt \in HookInputs :
        /\ input' = [input EXCEPT ![r] = evt]
        /\ evt = Event("POST", Str("page.content_updated"), Undef, Undef) \/ Quiet
        /\ IF evt.method = "HEAD"
           THEN Respond(r, 200, "") /\ UNCHANGED calls
           ELSE IF evt.method # "POST"
           THEN Respond(r, 405, "POST only") /\ UNCHANGED calls
           ELSE IF evt.type = NoBody       \* evt.type throws
           THEN Unhandled(r) /\ UNCHANGED calls
           ELSE IF AnswersHandshake(variant) /\ IsHandshake(evt)
           THEN Respond(r, 200, ChallengeBody(Challenge(evt))) /\ UNCHANGED calls
           ELSE IF ~IsContentUpdate(evt)
           THEN Respond(r, 200, "ignored") /\ UNCHANGED calls
           ELSE /\ pc' = [pc EXCEPT ![r] = "page"]
                /\ calls' = Issue(calls, Call("pages.retrieve", r, 0, <<>>))
                /\ UNCHANGED <<status, reply>>
    /\ HookFrame
    /\ UNCHANGED <<SEEN, media, crawlAt, item, faults>>

\* notion.pages.retrieve answers with the page; the matcher's query is sent
PageOk(r) ==
    /\ variant \in HookVariants
    /\ pc[r] = "page"
    /\ IF variant # "hookCrawlLoose" /\ PageUrl = ""
       THEN \* if (!pageURL) throw
            Respond(r, 500, "error") /\ UNCHANGED calls
       ELSE /\ pc' = [pc EXCEPT ![r] = "match"]
            /\ calls' = Issue(calls, Call("items.match", r, 1, <<PageUrl>>))
            /\ UNCHANGED <<status, reply>>
    /\ NoFault
    /\ HookFrame
    /\ UNCHANGED <<input, SEEN, media, crawlAt, item>>

\* the handler holds an item: it starts to collect the page's media
StartCrawl(r, id) ==
    /\ item' = [item EXCEPT ![r] = id]
    /\ crawlAt' = [crawlAt EXCEPT ![r] = 1]
    /\ pc' = [pc EXCEPT ![r] = "crawl"]
    /\ calls' = Issue(calls, ListCall(r, Plan.log[1][1], Plan.log[1][2]))
    /\ UNCHANGED <<status, reply>>

\* the exact query is answered
MatchAnswer(r) ==
    /\ variant \in HookVariants
    /\ pc[r] = "match"
    /\ LET id == findMondayItem(board, PageUrl, TRUE) IN
       IF id # 0 THEN StartCrawl(r, id)
       ELSE IF variant = "hookCrawlLoose"
       THEN \* itemId = await findMondayItem(pageURL, false)
            /\ pc' = [pc EXCEPT ![r] = "match2"]
            /\ calls' = Issue(calls, Call("items.match", r, 2, <<ToLower(PageUrl)>>))
            /\ UNCHANGED <<status, reply, item, crawlAt>>
       ELSE /\ Respond(r, 200, "no monday row")
            /\ UNCHANGED <<calls, item, crawlAt>>
    /\ NoFault
    /\ HookFrame
    /\ UNCHANGED <<input, SEEN, media>>

\* the loose query is answered
LooseAnswer(r) ==
    /\ variant = "hookCrawlLoose"
    /\ pc[r] = "match2"
    /\ LET id == findMondayItem(board, PageUrl, FALSE) IN
       IF id # 0 THEN StartCrawl(r, id)
       ELSE /\ Respond(r, 200, "no monday row")
            /\ UNCHANGED <<calls, item, crawlAt>>
    /\ NoFault
    /\ HookFrame
    /\ UNCHANGED <<input, SEEN, media>>

\* a mutant of Fresh: the collected blocks are not filtered
FreshAll(collected, seen) == collected

\* media.filter(b => !SEEN.has(b.id))
Fresh(collected, seen) == SelectSeq(collected, LAMBDA b : b \notin seen)

\* a mutant of Marked: the identifiers are not recorded
MarkedNone(seen, fresh) == seen

\* fresh.forEach(b => SEEN.add(b.id))
Marked(seen, fresh) == seen \cup { fresh[k] : k \in 1..Len(fresh) }

\* a child listing is answered, but it is not the last one of the crawl
ListMore(r) ==
    /\ variant \in HookVariants
    /\ pc[r] = "crawl"
    /\ crawlAt[r] < Len(Plan.log)
    /\ crawlAt' = [crawlAt EXCEPT ![r] = @ + 1]
    /\ calls' = Issue(calls, ListCall(r, Plan.log[crawlAt[r] + 1][1],
                                         Plan.log[crawlAt[r] + 1][2]))
    /\ NoFault
    /\ HookFrame
    /\ UNCHANGED <<input, pc, status, reply, SEEN, media, item>>

\* the last child listing is answered: the handler filters what it
\* collected against SEEN, marks it and submits it, in one synchronous run
ListDone(r) ==
    /\ variant \in HookVariants
    /\ pc[r] = "crawl"
    /\ crawlAt[r] = Len(Plan.log)
    /\ LET fresh == Fresh(Plan.out, SEEN) IN
       /\ media' = [media EXCEPT ![r] = Plan.out]
       /\ SEEN' = Marked(SEEN, fresh)
       /\ IF fresh = <<>>
          THEN /\ Respond(r, 200, "nothing new")
               /\ UNCHANGED <<added, batch, task, waiting, newFiles, calls>>
          ELSE Commit(Settle(Submit(Pool, r, fresh)))
    /\ NoFault
    /\ UNCHANGED <<trimVars, envVars, input, pageVars, crawlAt, item, itemFiles>>

\* an awaited call of the handler fails: the catch answers 500
HookFail(r) ==
    /\ variant \in HookVariants
    /\ pc[r] \in {"page", "match", "match2", "crawl"}
    /\ Fault
    /\ Respond(r, 500, "error")
    /\ HookFrame
    /\ UNCHANGED <<input, calls, SEEN, media, crawlAt, item>>

(***************************************************************************)
(* Endpoint B: the upload task of block i of request r.                    *)
(***************************************************************************)
HookTaskFrame == UNCHANGED <<trimVars, envVars, input, pageVars, SEEN, media,
                             crawlAt, item>>

\* notion.fileUploads.retrieve answers with the handle's URL
DerefOk(r, i) ==
    /\ variant \in HookVariants
    /\ i \in 1..Len(task[r])
    /\ Stage(r, i) = "deref"
    /\ Commit([Pool EXCEPT !.task[r][i].stage = "dl",
                           !.calls = Issue(@, Call("download", r, i, <<>>))])
    /\ NoFault
    /\ HookTaskFrame
    /\ UNCHANGED itemFiles

\* the download completes; the multipart mutation is posted
FetchOk(r, i) ==
    /\ variant \in HookVariants
    /\ i \in 1..Len(task[r])
    /\ Stage(r, i) = "dl"
    /\ Commit([Pool EXCEPT !.task[r][i].stage = "post",
                           !.task[r][i].buf = 1000,
                           !.calls = Issue(@, Call("files.post", r, i, <<>>))])
    /\ NoFault
    /\ HookTaskFrame
    /\ UNCHANGED itemFiles

\* a mutant of Attached: the column holds the last file only
AttachedAlone(files, e) == {e}

\* add_file_to_column(item_id, column_id, file): the file joins the column
Attached(files, e) == files \cup {e}

\* the Board System attaches the file to the item's column
PostOk(r, i) ==
    /\ variant \in HookVariants
    /\ i \in 1..Len(task[r])
    /\ Stage(r, i) = "post"
    /\ itemFiles' = Attached(itemFiles,
         [item |-> item[r], block |-> batch[r][i], by |-> <<r, i>>])
    /\ Finish(r, i, "done", <<>>)
    /\ NoFault
    /\ HookTaskFrame

\* the handle retrieval or the download rejects, or the Board System
\* answers the mutation with errors
HookTaskFail(r, i) ==
    /\ variant \in HookVariants
    /\ i \in 1..Len(task[r])
    /\ Stage(r, i) \in {"deref", "dl", "post"}
    /\ Fault
    /\ Commit(Settle(Rejects(Pool, r, i)))
    /\ HookTaskFrame
    /\ UNCHANGED itemFiles

(***************************************************************************)
(* The warm process.                                                       *)
(***************************************************************************)
OldEntry(k) == [name |-> "old.jpg", type |-> "external", ptr |-> <<"old", k>>]

InitialPages ==
    { [present |-> FALSE, files |-> <<>>],
      [present |-> TRUE,  files |-> <<OldEntry(1), OldEntry(2)>>] }

NoPage == [present |-> FALSE, files |-> <<>>]

ProcInit ==
    /\ variant \in Variants
    /\ board \in Boards
    /\ bare \in BOOLEAN
    /\ variant \in FwdVariants => board = "exact" /\ ~bare
    /\ pc = [r \in Reqs |-> "idle"]
    /\ input = [r \in Reqs |-> IF variant \in FwdVariants
                               THEN Request("POST", Undef, Undef)
                               ELSE Event("POST", Undef, Undef, Undef)]
    /\ status = [r \in Reqs |-> 0]
    /\ reply = [r \in Reqs |-> ""]
    /\ added = [r \in Reqs |-> -1]
    /\ batch = [r \in Reqs |-> <<>>]
    /\ task = [r \in Reqs |-> <<>>]
    /\ waiting = <<>>
    /\ newFiles = [r \in Reqs |-> <<>>]
    /\ calls = {}
    /\ existing = [r \in Reqs |-> <<>>]
    /\ pageFiles \in InitialPages
    /\ variant \notin MergeVariants => pageFiles = NoPage
    /\ pageBlocks = <<>>
    /\ SEEN = {}
    /\ media = [r \in Reqs |-> <<>>]
    /\ crawlAt = [r \in Reqs |-> 0]
    /\ item = [r \in Reqs |-> 0]
    /\ itemFiles = {}
    /\ faults = 0

TrimIdle ==
    /\ tIn = ""
    /\ tHelper = "trimName"
    /\ tOnce = ""
    /\ tTwice = ""
    /\ tStep = 0

Init == ProcInit /\ TrimIdle

TaskNext(r, i) ==
    \/ DownloadOk(r, i)
    \/ DownloadFail(r, i)
    \/ CreateOk(r, i)
    \/ CreateRejected(r, i)
    \/ CreateFail(r, i)
    \/ SendOk(r, i)
    \/ SendFail(r, i)
    \/ DerefOk(r, i)
    \/ FetchOk(r, i)
    \/ PostOk(r, i)
    \/ HookTaskFail(r, i)

HandlerNext(r) ==
    \/ Receive(r)
    \/ AssetsFound(r)
    \/ AssetsNoItem(r)
    \/ AssetsError(r)
    \/ RetrieveOk(r)
    \/ UpdateOk(r)
    \/ AppendOk(r)
    \/ WriterFail(r)
    \/ HookReceive(r)
    \/ PageOk(r)
    \/ MatchAnswer(r)
    \/ LooseAnswer(r)
    \/ ListMore(r)
    \/ ListDone(r)
    \/ HookFail(r)

Next == \E r \in Reqs : HandlerNext(r) \/ (\E i \in 1..MaxTasks : TaskNext(r, i))

Spec == Init /\ [][Next]_vars

(***************************************************************************)
(* The name helpers on their own.                                          *)
(***************************************************************************)
TrimInit ==
    /\ tIn \in TrimInputs
    /\ tHelper \in Helpers
    /\ tOnce = ""
    /\ tTwice = ""
    /\ tStep = 0
    /\ ProcInit
    /\ variant = "installJs"
    /\ pageFiles = NoPage

ApplyTrim ==
    /\ tStep = 0
    /\ tOnce' = ApplyHelper(tHelper, tIn)
    /\ tStep' = 1
    /\ UNCHANGED <<tIn, tHelper, tTwice, procVars>>

ReapplyTrim ==
    /\ tStep = 1
    /\ tTwice' = ApplyHelper(tHelper, tOnce)
    /\ tStep' = 2
    /\ UNCHANGED <<tIn, tHelper, tOnce, procVars>>

TrimNext == ApplyTrim \/ ReapplyTrim

SpecTrim == TrimInit /\ [][TrimNext]_vars

(***************************************************************************)
(* Properties.                                                             *)
(***************************************************************************)
FwdTasks == IF variant \in FwdVariants THEN TaskIds(task) ELSE {}
HookTasks == IF variant \in HookVariants THEN TaskIds(task) ELSE {}

TaskOf(id) == task[id[1]][id[2]]
RefOf(id)  == batch[id[1]][id[2]]

Entries(r) == { newFiles[r][k] : k \in 1..Len(newFiles[r]) }

\* the entry the task pushed is a file_upload entry of its own handle
Embedded(id) ==
    \E e \in Entries(id[1]) :
        e.type = "file_upload" /\ e.ptr = FileUploadId(id[1], id[2])

\* the entry the task pushed is an external entry of the original URL
Linked(id) ==
    /\ \E e \in Entries(id[1]) :
          e.type = "external" /\ e.ptr = RefOf(id).public_url
    /\ ~Embedded(id)

CallsOf(id, ops) ==
    { c \in calls : c.op \in ops /\ c.req = id[1] /\ c.ref = id[2] }

(***************************************************************************)
(* C1: in every reachable state at most 3 transfer tasks are in flight     *)
(* (started by the pool and not yet completed or failed), whatever the     *)
(* number of references submitted and whichever requests submitted them.   *)
(***************************************************************************)
C1_PoolBound == Running(task) <= 3

C1_Witness ==
    /\ \E r \in Reqs : Len(task[r]) >= 4
    /\ Running(task) = 3
    /\ waiting # <<>>

(***************************************************************************)
(* C2 (as stated): the placement is decided on the downloaded length; a    *)
(* payload of at most 20*1024*1024 bytes is placed EMBEDDED, a longer one  *)
(* LINKED to the original source URL.                                      *)
(***************************************************************************)
C2_AsStated ==
    \A id \in FwdTasks :
        TaskOf(id).stage = "done" =>
            /\ TaskOf(id).buf = RefOf(id).bytes
            /\ TaskOf(id).buf <= MiB20 => Embedded(id)
            /\ TaskOf(id).buf > MiB20 => Linked(id)

(***************************************************************************)
(* C2 (amended): the placement is decided on the downloaded length, not on *)
(* the declared size; a payload longer than 20*1024*1024 bytes is always   *)
(* placed LINKED to the original source URL; a payload of at most          *)
(* 20*1024*1024 bytes is placed EMBEDDED, except in the addMedia module    *)
(* when the Page System rejects the handle creation: then it is placed     *)
(* LINKED to the original source URL.                                      *)
(***************************************************************************)
C2_SizePolicy ==
    \A id \in FwdTasks :
        TaskOf(id).stage = "done" =>
            /\ TaskOf(id).buf = RefOf(id).bytes
            /\ TaskOf(id).buf > MiB20 => Linked(id)
            /\ (TaskOf(id).buf <= MiB20 /\ TaskOf(id).up # "null") => Embedded(id)
            /\ (TaskOf(id).buf <= MiB20 /\ TaskOf(id).up = "null") =>
                  variant = "addMedia" /\ Linked(id)

C2_Witness ==
    \E a, b, c \in FwdTasks :
        /\ TaskOf(a).stage = "done" /\ TaskOf(a).buf = MiB20
        /\ RefOf(a).file_size > MiB20 /\ Embedded(a)
        /\ TaskOf(b).stage = "done" /\ TaskOf(b).buf = MiB20 + 1
        /\ RefOf(b).file_size <= MiB20 /\ Linked(b)
        /\ TaskOf(c).stage = "done" /\ TaskOf(c).buf <= MiB20
        /\ TaskOf(c).up = "null" /\ Linked(c)

C4_SeenDedup ==
    \A a, b \in HookTasks : RefOf(a) = RefOf(b) => a = b

C4_Witness ==
    /\ variant \in HookVariants
    /\ \E r, q \in Reqs :
        /\ r # q
        /\ pc[r] = "batch" /\ Len(batch[r]) >= 2
        /\ media[q] = media[r]
        /\ batch[q] = <<>> /\ status[q] = 200 /\ reply[q] = "nothing new"

(***************************************************************************)
(* C5: when the writer merges the N new files of a request into a page     *)
(* whose attachment list holds M entries (none when the property is        *)
(* absent) and the list has not changed since the request read it, the     *)
(* list written has exactly M+N entries: the M original entries, unchanged *)
(* and in their positions, followed by the N new ones.                     *)
(***************************************************************************)
C5_MergeUnion ==
    [][\A r \in Reqs :
         (pc[r] = "update" /\ pc'[r] = "append"
            /\ ExistingFiles(pageFiles) = existing[r]) =>
         LET old     == ExistingFiles(pageFiles)
             written == pageFiles'.files
         IN  /\ pageFiles'.present
             /\ Len(written) = Len(old) + Len(newFiles[r])
             /\ SubSeq(written, 1, Len(old)) = old
             /\ SubSeq(written, Len(old) + 1, Len(written)) = newFiles[r]]_vars

C5_Witness ==
    \E r \in Reqs :
        /\ pc[r] = "append"
        /\ Len(existing[r]) = 2
        /\ Len(newFiles[r]) >= 2
        /\ pageFiles.present
        /\ pageFiles.files = existing[r] \o newFiles[r]
        /\ Len(pageFiles.files) = 2 + Len(newFiles[r])

(***************************************************************************)
(* C6: on a block tree of depth 5 with a media block at every level, the   *)
(* crawler returns media blocks of the levels 0, 1 and 2, never one of a   *)
(* deeper level, and issues no child-listing call for a block of level 2   *)
(* or deeper.                                                              *)
(***************************************************************************)
C6_DepthBound ==
    variant \in CrawlVariants =>
        /\ \A r \in Reqs : \A k \in 1..Len(media[r]) :
              Block(media[r][k]).level <= 2
        /\ \A r \in Reqs : media[r] # <<>> =>
              \A L \in 0..2 : \E k \in 1..Len(media[r]) :
                  Block(media[r][k]).level = L
        /\ \A c \in calls :
              (c.op = "blocks.list" /\ c.ref # RootPage) => Block(c.ref).level < 2

C6_Witness ==
    /\ variant \in CrawlVariants
    /\ TreeDepth >= 5
    /\ \A b \in 1..TreeDepth : IsMedia(b) /\ Block(b).level = b - 1
    /\ \E r \in Reqs :
        /\ \E k \in 1..Len(media[r]) : Block(media[r][k]).level = 2
        /\ \E c \in calls :
             c.op = "blocks.list" /\ c.req = r /\ c.ref # RootPage
               /\ Block(c.ref).level = 1

(***************************************************************************)
(* C7: the writer takes no lock: the list a request writes is the union it *)
(* computed from its own earlier read, whatever the page holds by then; so *)
(* a state is reachable in which both requests responded 200 and the       *)
(* page's list lacks the files of one of them.                             *)
(***************************************************************************)
C7_LastWriterWins ==
    [][\A r \in Reqs :
         (pc[r] = "update" /\ pc'[r] = "append") =>
            pageFiles'.files = existing[r] \o newFiles[r]]_vars

C7_Witness ==
    \E r, q \in Reqs :
        /\ r # q
        /\ status[r] = 200 /\ status[q] = 200
        /\ newFiles[r] # <<>> /\ newFiles[q] # <<>>
        /\ existing[r] = existing[q]
        /\ pageFiles.files = existing[q] \o newFiles[q]
        /\ \E e \in Entries(r) :
              \A k \in 1..Len(pageFiles.files) : pageFiles.files[k] # e

(***************************************************************************)
(* C8: for a reference whose downloaded length exceeds 20 MiB, no          *)
(* upload-handle creation request and no byte-stream request is issued;    *)
(* the task ends at once with a LINKED entry whose pointer is the          *)
(* reference's original source URL.                                        *)
(***************************************************************************)
C8_OversizedNeverUploaded ==
    \A id \in FwdTasks :
        TaskOf(id).buf > MiB20 =>
            /\ CallsOf(id, {"file_uploads.create", "file_uploads.send"}) = {}
            /\ TaskOf(id).stage = "done"
            /\ Linked(id)

C8_Witness ==
    \E id \in FwdTasks :
        /\ TaskOf(id).buf > MiB20
        /\ TaskOf(id).stage = "done"
        /\ Linked(id)
        /\ CallsOf(id, {"download"}) # {}
        /\ status[id[1]] = 200

(***************************************************************************)
(* C10 (as stated): every name passed to a destination call (the filename  *)
(* of the handle-creation request, the name of each entry of the           *)
(* attachment list written) has at most 100 characters.                    *)
(***************************************************************************)
C10_AsStated ==
    \A c \in calls :
        c.op \in {"file_uploads.create", "pages.update"} =>
            \A k \in 1..Len(c.names) : Len(c.names[k]) <= 100
(***************************************************************************)
(* C9 (as stated): a name of at most 100 characters is returned unchanged, *)
(* a 150-character name yields exactly 100 characters ending in the        *)
(* helper's ellipsis marker, and re-applying the helper changes nothing.   *)
(***************************************************************************)
C9_AsStated ==
    /\ (tStep >= 1 /\ Len(tIn) <= 100) => tOnce = tIn
    /\ (tStep >= 1 /\ Len(tIn) = 150) =>
          Len(tOnce) = 100 /\ EndsWith(tOnce, MarkerOf(tHelper))
    /\ tStep = 2 => tTwice = tOnce

(***************************************************************************)
(* C9 (amended): a name of at most 100 characters is returned unchanged;   *)
(* a longer name (150 characters included) yields its first 97 characters  *)
(* followed by the helper's marker, which is 100 characters for trimName   *)
(* (marker "...") and 98 for trim and trim100 (one-character ellipsis),    *)
(* never more than 100; re-applying the helper changes nothing.            *)
(***************************************************************************)
C9_TrimIdempotent ==
    /\ (tStep >= 1 /\ Len(tIn) <= 100) => tOnce = tIn
    /\ (tStep >= 1 /\ Len(tIn) > 100) =>
          /\ Len(tOnce) = (IF tHelper = "trimName" THEN 100 ELSE 98)
          /\ Len(tOnce) <= 100
          /\ EndsWith(tOnce, MarkerOf(tHelper))
          /\ SubSeq(tOnce, 1, 97) = SubSeq(tIn, 1, 97)
    /\ tStep = 2 => tTwice = tOnce

C9_Witness ==
    /\ tStep = 2
    /\ Len(tIn) = 150
    /\ tHelper = "trim100"
    /\ Len(tOnce) = 98
    /\ tTwice = tOnce
(***************************************************************************)
(* C11: a request of endpoint A answered 200 whose batch held N references *)
(* has pushed exactly N entries, one for each reference and none for       *)
(* anything else, and reports N; the entries went to at most one call of   *)
(* each writer operation: exactly one when N >= 1 (and always in the       *)
(* merging handlers), none in the addMedia handler when N = 0; the page    *)
(* has received N preview blocks for it.                                   *)
(***************************************************************************)
\* entry k of request r was produced from reference i of its batch
C11_EntryOf(r, k, i) ==
    LET e == newFiles[r][k]
    IN  \/ e.type = "file_upload" /\ e.ptr = FileUploadId(r, i)
        \/ e.type = "external" /\ e.ptr = batch[r][i].public_url

C11_WriterCalls(r, op) == { c \in calls : c.op = op /\ c.req = r }

RECURSIVE C11_BlocksDue(_)
C11_BlocksDue(rs) ==
    IF rs = {} THEN 0
    ELSE LET r == CHOOSE x \in rs : TRUE
         IN  (IF status[r] = 200 THEN Len(batch[r]) ELSE 0)
             + C11_BlocksDue(rs \ {r})

C11_OncePerReference ==
    variant \in FwdVariants =>
        /\ Len(pageBlocks) = C11_BlocksDue(Reqs)
        /\ \A r \in Reqs : status[r] = 200 =>
            LET N == Len(batch[r])
            IN  /\ Len(newFiles[r]) = N
                /\ added[r] = N
                /\ \A i \in 1..N :
                      Cardinality({k \in 1..N : C11_EntryOf(r, k, i)}) = 1
                /\ \A k \in 1..N :
                      Cardinality({i \in 1..N : C11_EntryOf(r, k, i)}) = 1
                /\ Cardinality(C11_WriterCalls(r, "blocks.append")) =
                      IF N >= 1 \/ variant \in MergeVariants THEN 1 ELSE 0
                /\ Cardinality(C11_WriterCalls(r, "pages.update")) =
                      IF variant \in MergeVariants THEN 1 ELSE 0

\* a request answered 200 with an embedded and a linked entry among N >= 2
C11_Witness ==
    /\ variant \in FwdVariants
    /\ \E r \in Reqs :
          /\ status[r] = 200
          /\ Len(batch[r]) >= 2
          /\ added[r] = Len(batch[r])
          /\ \E e, f \in Entries(r) : e.type = "file_upload" /\ f.type = "external"
          /\ Len(pageBlocks) >= Len(batch[r])

(***************************************************************************)
(* C11 (as stated): every successful request hands its entries to exactly  *)
(* one Destination Writer call.                                            *)
(***************************************************************************)
C11_AsStated ==
    variant \in FwdVariants =>
        \A r \in Reqs : status[r] = 200 =>
            Cardinality(C11_WriterCalls(r, "blocks.append")) = 1

(***************************************************************************)
(* C12 (as stated): the preview block appended for a transferred file is a *)
(* video block when the file's name ends in .mp4, an image block when it   *)
(* ends in one of the image extensions (case-insensitively), and a generic *)
(* file block for every other name.                                        *)
(***************************************************************************)
\* the block type the extension rule gives a filename
C12_TypeFor(name) ==
    LET low == ToLower(name)
    IN  IF EndsWith(low, ".mp4") THEN "video"
        ELSE IF \E e \in {".jpg", ".jpeg", ".png", ".gif", ".webp", ".tif",
                          ".tiff"} : EndsWith(low, e)
        THEN "image"
        ELSE "file"

C12_AsStated ==
    variant \in FwdVariants =>
        \A r \in Reqs : status[r] = 200 =>
            \A k \in 1..Len(newFiles[r]) :
                Children(variant, newFiles[r])[k].type
                    = C12_TypeFor(newFiles[r][k].name)

(***************************************************************************)
(* C13: within one request every remote operation (the lister's and the    *)
(* matcher's queries, and for each reference the download, the handle      *)
(* creation or retrieval, the byte upload, the multipart upload) is issued *)
(* at most once; a task that has failed stays failed and no further call   *)
(* is issued for its reference.                                            *)
(***************************************************************************)
C13_CallsFor(cs, r, i) ==
    { c \in cs : c.req = r /\ c.ref = i
                 /\ c.op \in {"download", "file_uploads.create",
                              "file_uploads.send", "file_uploads.retrieve",
                              "files.post"} }

C13_NoRetry ==
    /\ [](\A c \in calls : c.nth = 1)
    /\ [][\A r \in Reqs : \A i \in 1..Len(task[r]) :
            task[r][i].stage = "failed" =>
                /\ task'[r][i].stage = "failed"
                /\ C13_CallsFor(calls', r, i) = C13_CallsFor(calls, r, i)]_vars

\* a transfer failed after its download was issued, the request was aborted
\* and has been answered, and the pool has since gone on with other tasks
C13_Witness ==
    \E r \in Reqs : \E i \in 1..Len(task[r]) :
        /\ task[r][i].stage = "failed"
        /\ Cardinality(C13_CallsFor(calls, r, i)) >= 1
        /\ status[r] = 500
        /\ \E j \in 1..Len(task[r]) : j > i /\ task[r][j].stage = "done"

(***************************************************************************)
(* C14: when the board holds no row for the page (none with the page's     *)
(* URL and, where the matcher has a loose fallback, none with its          *)
(* lower-cased form), the matcher answers null and the webhook handler     *)
(* answers 200 'no monday row': it holds no item, lists no block, leaves   *)
(* the Seen-set as it was and submits no upload; and 'no monday row' is    *)
(* answered in no other case.                                              *)
(***************************************************************************)
C14_NoCandidate ==
    \A k \in 1..Len(BoardRows(board)) :
        /\ BoardRows(board)[k].text # PageUrl
        /\ variant = "hookCrawlLoose" =>
              BoardRows(board)[k].text # ToLower(PageUrl)

C14_Matched(r) == \E c \in calls : c.op = "items.match" /\ c.req = r

C14_NoMatch ==
    variant \in HookVariants =>
        /\ \A r \in Reqs : reply[r] = "no monday row" =>
              C14_NoCandidate /\ status[r] = 200 /\ C14_Matched(r)
        /\ C14_NoCandidate =>
              /\ SEEN = {}
              /\ itemFiles = {}
              /\ \A r \in Reqs :
                    /\ item[r] = 0
                    /\ media[r] = <<>> /\ batch[r] = <<>> /\ task[r] = <<>>
                    /\ \A c \in calls :
                          c.req = r => c.op \in {"pages.retrieve", "items.match"}
                    /\ C14_Matched(r) /\ status[r] = 200 =>
                          reply[r] = "no monday row"

\* the exact pass and the loose fallback were both issued and found nothing
C14_Witness ==
    /\ variant = "hookCrawlLoose"
    /\ \E r \in Reqs :
          /\ reply[r] = "no monday row"
          /\ status[r] = 200
          /\ \E c, d \in calls :
                /\ c.op = "items.match" /\ c.req = r /\ c.ref = 1
                /\ d.op = "items.match" /\ d.req = r /\ d.ref = 2

(***************************************************************************)
(* C15 (as stated): every POST delivery whose type is the verification     *)
(* handshake, or which carries a challenge, is answered 200 with the       *)
(* challenge echoed back, and neither the matcher nor the crawl nor an     *)
(* upload runs for it.                                                     *)
(***************************************************************************)
C15_AsStated ==
    variant \in HookVariants =>
        \A r \in Reqs :
            pc[r] # "idle" /\ input[r].method = "POST" /\ IsHandshake(input[r]) =>
                /\ status[r] = 200
                /\ reply[r] = ChallengeBody(Challenge(input[r]))
                /\ \A c \in calls : c.req # r
                /\ batch[r] = <<>>

(***************************************************************************)
(* C16 (as stated): a HEAD request is answered 200; a POST that is neither *)
(* a handshake nor of type 'page.content_updated' is answered 200          *)
(* 'ignored'; remote calls are issued, and the Seen-set is changed, only   *)
(* for POST deliveries of type 'page.content_updated' without a challenge. *)
(***************************************************************************)
C16_RunsPipeline(evt) ==
    evt.method = "POST" /\ IsContentUpdate(evt) /\ ~Truthy(evt.challenge)

C16_AsStated ==
    variant \in HookVariants =>
        /\ \A r \in Reqs : pc[r] # "idle" =>
              /\ input[r].method = "HEAD" => status[r] = 200 /\ reply[r] = ""
              /\ input[r].method = "POST" /\ ~IsHandshake(input[r])
                    /\ ~IsContentUpdate(input[r])
                 => status[r] = 200 /\ reply[r] = "ignored"
              /\ ~C16_RunsPipeline(input[r]) =>
                    /\ \A c \in calls : c.req # r
                    /\ media[r] = <<>> /\ batch[r] = <<>>
        /\ SEEN # {} => \E r \in Reqs : pc[r] # "idle" /\ C16_RunsPipeline(input[r])

(***************************************************************************)
(* C17 (as stated): on endpoint A a request that is not a POST is answered *)
(* 405, and a POST whose itemId is missing or not a number, or whose       *)
(* pageId is missing in the merging handlers, is answered 400; in both     *)
(* cases no remote call is issued for the request.                         *)
(***************************************************************************)
C17_Invalid(in) ==
    \/ in.itemId.t # "number"
    \/ variant \in MergeVariants /\ in.pageId.t = "undefined"

C17_AsStated ==
    variant \in FwdVariants =>
        \A r \in Reqs : pc[r] # "idle" =>
            /\ input[r].method # "POST" =>
                  status[r] = 405 /\ \A c \in calls : c.req # r
            /\ input[r].method = "POST" /\ C17_Invalid(input[r]) =>
                  status[r] = 400 /\ \A c \in calls : c.req # r

(***************************************************************************)
(* C18 (as stated): when the Board System knows no item of the given       *)
(* identifier (data.items is empty), the lister fails and the request is   *)
(* answered with an error; it is never answered 200 with a count of 0.     *)
(***************************************************************************)
C18_AsStated ==
    variant \in FwdVariants =>
        \A r \in Reqs :
            /\ pc[r] = "done"
            /\ input[r].method = "POST" /\ ValidInput(variant, input[r])
            /\ QueriedItem(r) = UnknownItem
            => status[r] = 500 /\ added[r] = -1 /\ batch[r] = <<>>

(***************************************************************************)
(* C19: when the Board System answers the asset query of a request with an *)
(* error payload, the handler answers 500 with the message of that error   *)
(* and stops: the request has issued the asset query and nothing else, no  *)
(* download, no upload-handle request, no write to the page.               *)
(***************************************************************************)
C19_Message == ErrorPayload.errors[1].message

\* the step in which the refused query of r is answered
C19_Refused(r) ==
    /\ pc[r] = "assets" /\ pc'[r] # "assets"
    /\ QueriedItem(r) = 0 \/ faults' > faults

\* what that step does
C19_Step ==
    variant \in FwdVariants =>
        \A r \in Reqs : C19_Refused(r) =>
            /\ status'[r] = 500
            /\ reply'[r] = C19_Message
            /\ calls' = calls
            /\ pageFiles' = pageFiles
            /\ pageBlocks' = pageBlocks

C19_ListerError ==
    /\ [](variant \in FwdVariants =>
            \A r \in Reqs : reply[r] = C19_Message =>
                /\ status[r] = 500 /\ pc[r] = "done" /\ added[r] = -1
                /\ batch[r] = <<>> /\ task[r] = <<>> /\ newFiles[r] = <<>>
                /\ \A c \in calls : c.req = r => c.op = "assets.query")
    /\ [][C19_Step]_vars

\* the query of one request was refused while the other request's transfer
\* went through
C19_Witness ==
    /\ variant \in FwdVariants
    /\ \E r, q \in Reqs :
          /\ reply[r] = C19_Message
          /\ status[r] = 500
          /\ \E c \in calls : c.req = r /\ c.op = "assets.query"
          /\ QueriedItem(r) \in ItemIds
          /\ status[q] = 200 /\ added[q] >= 1

(***************************************************************************)
(* A process that runs a crawling webhook module, under its scheduler: the *)
(* event loop runs every continuation that is ready, and every awaited     *)
(* call settles, with an answer or with a rejection.  The process is warm: *)
(* it has answered a keep-alive probe (HEAD) before the delivery arrives.  *)
(***************************************************************************)
Probe == Event("HEAD", Undef, Undef, Undef)

CrawlerInit ==
    /\ TrimIdle
    /\ variant \in CrawlVariants
    /\ board \in Boards
    /\ bare \in BOOLEAN
    /\ pc = [r \in Reqs |-> IF r = 1 THEN "done" ELSE "idle"]
    /\ input = [r \in Reqs |-> IF r = 1 THEN Probe
                                ELSE Event("POST", Undef, Undef, Undef)]
    /\ status = [r \in Reqs |-> IF r = 1 THEN 200 ELSE 0]
    /\ reply = [r \in Reqs |-> ""]
    /\ added = [r \in Reqs |-> -1]
    /\ batch = [r \in Reqs |-> <<>>]
    /\ task = [r \in Reqs |-> <<>>]
    /\ waiting = <<>>
    /\ newFiles = [r \in Reqs |-> <<>>]
    /\ calls = {}
    /\ existing = [r \in Reqs |-> <<>>]
    /\ pageFiles = NoPage
    /\ pageBlocks = <<>>
    /\ SEEN = {}
    /\ media = [r \in Reqs |-> <<>>]
    /\ crawlAt = [r \in Reqs |-> 0]
    /\ item = [r \in Reqs |-> 0]
    /\ itemFiles = {}
    /\ faults = 0

CrawlerHandlerNext(r) ==
    \/ HookReceive(r)
    \/ PageOk(r)
    \/ MatchAnswer(r)
    \/ LooseAnswer(r)
    \/ ListMore(r)
    \/ ListDone(r)
    \/ HookFail(r)

CrawlerTaskNext(r, i) ==
    \/ DerefOk(r, i)
    \/ FetchOk(r, i)
    \/ PostOk(r, i)
    \/ HookTaskFail(r, i)

CrawlerNext ==
    \E r \in Reqs :
        CrawlerHandlerNext(r) \/ (\E i \in 1..MaxTasks : CrawlerTaskNext(r, i))

\* where ListDone(r) is enabled: the last listing of the crawl is awaited
LastListed(r) ==
    variant \in HookVariants /\ pc[r] = "crawl" /\ crawlAt[r] = Len(Plan.log)

\* WF_vars(ListDone(r)), its enabling condition written out
FairListDone(r) == []<>(~LastListed(r)) \/ []<><<ListDone(r)>>_vars

\* every listing the crawl awaits is answered in the end
SpecCrawler ==
    /\ CrawlerInit
    /\ [][CrawlerNext]_vars
    /\ \A r \in Reqs : WF_vars(ListMore(r)) /\ FairListDone(r)

(***************************************************************************)
(* C20: for every block the crawler lists, it lists every result page, in  *)
(* the order of the cursor, up to the one for which the Page System        *)
(* reports no more; when the crawl has returned, every media child on      *)
(* every result page of every listed block has been collected; and every   *)
(* crawl that has started comes to an end.                                 *)
(***************************************************************************)
C20_Listed(r, b, p) ==
    \E c \in calls : c.op = "blocks.list" /\ c.req = r /\ c.ref = b /\ c.page = p

C20_Paginated ==
    \A r \in Reqs : \A c \in calls :
        (c.op = "blocks.list" /\ c.req = r) =>
            LET pages == ChildPages(c.ref) IN
            /\ c.page \in 1..Len(pages)
            /\ \A q \in 1..c.page : C20_Listed(r, c.ref, q)
            /\ media[r] # <<>> =>
                  \A q \in 1..Len(pages) :
                      /\ C20_Listed(r, c.ref, q)
                      /\ \A k \in 1..Len(pages[q]) :
                            IsMedia(pages[q][k]) =>
                                \E n \in 1..Len(media[r]) :
                                    media[r][n] = pages[q][k]

C20_CrawlPaginatesAndEnds ==
    /\ [](variant \in CrawlVariants => C20_Paginated)
    /\ \A r \in Reqs : (pc[r] = "crawl") ~> (pc[r] # "crawl")

\* the crawl has returned after following the cursor of the page's own
\* listing to its second result page and listing nested blocks
C20_Witness ==
    /\ variant \in CrawlVariants
    /\ \E r \in Reqs :
          /\ pc[r] \notin {"idle", "crawl"}
          /\ C20_Listed(r, RootPage, 2)
          /\ \E b \in BlockIds : C20_Listed(r, b, 1)
          /\ \E n \in 1..Len(media[r]) : media[r][n] = VideoBlock

(***************************************************************************)
(* C21: when a child-listing call of a request fails, the handler answers  *)
(* 500 in that step, issues no call and leaves the Seen-set as it is; the  *)
(* request never wrote the Seen-set before, has no batch and never gets    *)
(* one: no handle retrieval, download or upload is issued for the blocks   *)
(* listed before the failure.                                              *)
(***************************************************************************)
\* the step in which a listing r awaits is rejected
C21_ListingFails(r) ==
    pc[r] = "crawl" /\ pc'[r] # "crawl" /\ faults' > faults

C21_Step ==
    variant \in HookVariants =>
        \A r \in Reqs :
            /\ C21_ListingFails(r) =>
                  /\ status'[r] = 500 /\ pc'[r] = "done"
                  /\ SEEN' = SEEN
                  /\ calls' = calls
                  /\ batch'[r] = <<>> /\ media'[r] = <<>>
            /\ pc[r] = "crawl" => media[r] = <<>> /\ batch[r] = <<>>
            /\ (pc[r] = "done" /\ batch[r] = <<>>) =>
                  /\ batch'[r] = <<>> /\ pc'[r] = "done"
                  /\ \A c \in calls' : c.req = r => c \in calls
            /\ SEEN' # SEEN =>
                  \E q \in Reqs : pc[q] = "crawl" /\ faults' = faults

C21_CrawlFailureAborts ==
    /\ [](variant \in HookVariants =>
            \A r \in Reqs : (pc[r] = "done" /\ batch[r] = <<>>) =>
                \A c \in calls : c.req = r =>
                    c.op \in {"pages.retrieve", "items.match", "blocks.list"})
    /\ [][C21_Step]_vars

\* a crawl that had listed nested blocks was aborted by a failed listing:
\* nothing of what it had collected is in the Seen-set or was uploaded
C21_Witness ==
    /\ variant \in CrawlVariants
    /\ \E r \in Reqs :
          /\ status[r] = 500 /\ pc[r] = "done"
          /\ \E c \in calls : c.op = "blocks.list" /\ c.req = r /\ c.ref # RootPage
          /\ batch[r] = <<>>
          /\ SEEN = {}
          /\ itemFiles = {}

(***************************************************************************)
(* C22 (as stated): whenever no upload batch is in flight, every           *)
(* identifier in the Seen-set is that of a block whose upload to the Board *)
(* System completed successfully.                                          *)
(***************************************************************************)
C22_NoBatchInFlight ==
    \A r \in Reqs : \A i \in 1..Len(task[r]) :
        task[r][i].stage \in {"done", "failed"}

C22_AsStated ==
    (variant \in HookVariants /\ C22_NoBatchInFlight) =>
        \A b \in SEEN : \E e \in itemFiles : e.block = b

(***************************************************************************)
(* C23: nothing cancels a submitted task.  A task is queued exactly while  *)
(* it stands in the pool's queue, and it stands there only while the pool  *)
(* is full; a task that has started stays in flight until it completes or  *)
(* fails, whatever the state of its handler: the failure of another task   *)
(* of the batch and the 500 answer change neither its stage nor its place  *)
(* in the queue.  Once the handler has answered 500, its answer is final   *)
(* and it writes nothing to the page.                                      *)
(***************************************************************************)
C23_Queued(t, w) ==
    \A r \in Reqs : \A i \in 1..Len(t[r]) :
        t[r][i].stage = "queued" <=> \E k \in 1..Len(w) : w[k] = <<r, i>>

C23_State ==
    /\ C23_Queued(task, waiting)
    /\ waiting # <<>> => Running(task) = Concurrency

C23_Step ==
    \A r \in Reqs :
        /\ Len(task[r]) > 0 => task'[r] # <<>> /\ Len(task'[r]) = Len(task[r])
        /\ \A i \in 1..Len(task[r]) :
              /\ task[r][i].stage \in {"done", "failed"} =>
                    task'[r][i].stage = task[r][i].stage
              /\ task[r][i].stage \in InFlight =>
                    task'[r][i].stage \in InFlight \cup {"done", "failed"}
              \* a step that fails one task leaves the others where they are
              /\ (task[r][i].stage # "failed" /\ task'[r][i].stage = "failed") =>
                    \A j \in 1..Len(task[r]) : j # i =>
                        \/ task'[r][j].stage = task[r][j].stage
                        \/ task[r][j].stage = "queued"
        /\ status[r] = 500 =>
              /\ status'[r] = 500 /\ reply'[r] = reply[r] /\ added'[r] = added[r]
              /\ pc'[r] = "done"
              /\ \A c \in calls' :
                    (c.req = r /\ c \notin calls) =>
                        c.op \notin {"pages.retrieve", "pages.update",
                                     "blocks.append"}

C23_NoCancellation == []C23_State /\ [][C23_Step]_vars

\* the handler has answered 500 for a task that failed while the batch's
\* fourth task was queued: no task of the batch has completed, so it is that
\* failure which freed the slot, and the fourth task has been started
C23_Witness ==
    \E r \in Reqs :
        /\ status[r] = 500
        /\ Len(task[r]) >= 4
        /\ \E i \in 1..3 : task[r][i].stage = "failed"
        /\ \A i \in 1..Len(task[r]) : task[r][i].stage # "done"
        /\ task[r][4].stage \in InFlight
        /\ \A q \in Reqs : q # r => task[q] = <<>>

(***************************************************************************)
(* C24: partial success is not rolled back.  A file attached to an item's  *)
(* file column stays attached through every later step, whatever happens   *)
(* to the other uploads of its batch; the webhook direction issues no call *)
(* other than the page retrieval, the item query, the child listings, the  *)
(* handle retrieval, the download and the multipart upload, so none that   *)
(* would detach a file; and the 500 answer of a batch carries the error    *)
(* text and no count, however many files of the batch were attached.       *)
(***************************************************************************)
C24_HookOps == {"pages.retrieve", "items.match", "blocks.list",
                "file_uploads.retrieve", "download", "files.post"}

\* the files of the batch of r that are attached
C24_AttachedBy(r) == { e \in itemFiles : e.by[1] = r }

C24_State ==
    \A r \in Reqs :
        /\ \A i \in 1..Len(task[r]) :
              \* (a block without a URL is skipped: nothing is downloaded)
              (variant \in HookVariants /\ task[r][i].stage = "done"
                                         /\ task[r][i].buf >= 0) =>
                  \E e \in itemFiles :
                      e.by = <<r, i>> /\ e.block = batch[r][i] /\ e.item = item[r]
        /\ (variant \in HookVariants /\ status[r] = 500) =>
              added[r] = -1 /\ reply[r] = "error"

C24_Step ==
    /\ itemFiles \subseteq itemFiles'
    /\ variant \in HookVariants =>
          \A c \in calls' : c \notin calls => c.op \in C24_HookOps

C24_NoRollback == []C24_State /\ [][C24_Step]_vars

\* a batch answered 500 for a failed upload while two other uploads of the
\* same batch are attached to the item
C24_Witness ==
    \E r \in Reqs :
        /\ variant \in HookVariants
        /\ status[r] = 500
        /\ \E i \in 1..Len(task[r]) : task[r][i].stage = "failed"
        /\ Cardinality(C24_AttachedBy(r)) >= 2

(***************************************************************************)
(* C25: the page is written only after the whole batch has succeeded.  A   *)
(* request that has read the page, written its attachment list or appended *)
(* blocks (or is about to) has every task of its batch completed; a request *)
(* with a failed task has issued none of these calls; and the attachment   *)
(* list and the blocks of the page change only in the step in which the    *)
(* page update or the append of such a request is answered.                *)
(***************************************************************************)
C25_WriterOps == {"pages.retrieve", "pages.update", "blocks.append"}

C25_Wrote(r) == \E c \in calls : c.req = r /\ c.op \in C25_WriterOps

C25_AllDone(r) == \A i \in 1..Len(task[r]) : task[r][i].stage = "done"

C25_State ==
    variant \in FwdVariants =>
        \A r \in Reqs :
            /\ (C25_Wrote(r) \/ pc[r] \in {"retrieve", "update", "append"}) =>
                  C25_AllDone(r)
            /\ (\E i \in 1..Len(task[r]) : task[r][i].stage = "failed") =>
                  ~C25_Wrote(r)

C25_Step ==
    (pageFiles' # pageFiles \/ pageBlocks' # pageBlocks) =>
        \E r \in Reqs :
            /\ pc[r] \in {"update", "append"}
            /\ pc'[r] # pc[r]
            /\ C25_AllDone(r)
            /\ \A q \in Reqs : q # r => pc'[q] = pc[q]

C25_WritesAfterBatch == []C25_State /\ [][C25_Step]_vars

\* one request has written the page after its two or more transfers all
\* completed, and another was answered 500 for a failed transfer without
\* having read or written the page
C25_Witness ==
    \E r, q \in Reqs :
        /\ variant \in FwdVariants
        /\ Len(task[r]) >= 2 /\ C25_AllDone(r)
        /\ status[r] = 200
        /\ \E c \in calls : c.req = r /\ c.op \in {"pages.update", "blocks.append"}
        /\ \E i \in 1..Len(task[q]) : task[q][i].stage = "failed"
        /\ status[q] = 500
        /\ ~C25_Wrote(q)

(***************************************************************************)
(* C26: the order of an embedded transfer.  The upload handle is requested *)
(* in the step in which the download of the reference completes, and not   *)
(* before; a reference is placed (embedded or linked) only with its bytes  *)
(* downloaded; the bytes are sent to the upload target in the step in      *)
(* which the handle creation is answered; and the entry carrying the       *)
(* handle id is pushed in the step in which the byte-stream request is     *)
(* answered, which completes the task.                                     *)
(***************************************************************************)
C26_Called(cs, op, r, i) ==
    \E c \in cs : c.op = op /\ c.req = r /\ c.ref = i

C26_Recorded(nf, r, i) ==
    \E k \in 1..Len(nf[r]) :
        nf[r][k].type = "file_upload" /\ nf[r][k].ptr = <<"file_upload", r, i>>

C26_State ==
    variant \in FwdVariants =>
        \A r \in Reqs : \A i \in 1..Len(task[r]) :
            /\ C26_Called(calls, "file_uploads.create", r, i) =>
                  /\ C26_Called(calls, "download", r, i)
                  /\ task[r][i].buf = batch[r][i].bytes
                  /\ task[r][i].buf <= MiB20
            /\ task[r][i].stage = "done" => task[r][i].buf = batch[r][i].bytes
            /\ C26_Called(calls, "file_uploads.send", r, i) =>
                  C26_Called(calls, "file_uploads.create", r, i)
            /\ C26_Recorded(newFiles, r, i) =>
                  /\ C26_Called(calls, "file_uploads.send", r, i)
                  /\ task[r][i].stage = "done"

C26_Step ==
    variant \in FwdVariants =>
        \A r \in Reqs : \A i \in 1..Len(task[r]) :
            /\ (~C26_Called(calls, "file_uploads.create", r, i)
                    /\ C26_Called(calls', "file_uploads.create", r, i)) =>
                  /\ C26_Called(calls, "download", r, i)
                  /\ task[r][i].stage = "dl" /\ task[r][i].buf = -1
                  /\ task'[r][i].buf = batch[r][i].bytes
            /\ (~C26_Called(calls, "file_uploads.send", r, i)
                    /\ C26_Called(calls', "file_uploads.send", r, i)) =>
                  /\ C26_Called(calls, "file_uploads.create", r, i)
                  /\ task[r][i].stage = "create"
            /\ (~C26_Recorded(newFiles, r, i) /\ C26_Recorded(newFiles', r, i)) =>
                  /\ C26_Called(calls, "file_uploads.send", r, i)
                  /\ task[r][i].stage = "send"
                  /\ task'[r][i].stage = "done"

C26_EmbeddedOrder == []C26_State /\ [][C26_Step]_vars

\* an embedded transfer has run through: downloaded, handle created, bytes
\* sent, entry recorded, while another reference of the batch is linked
C26_Witness ==
    \E r \in Reqs : \E i, j \in 1..Len(task[r]) :
        /\ variant \in FwdVariants
        /\ C26_Recorded(newFiles, r, i)
        /\ C26_Called(calls, "file_uploads.send", r, i)
        /\ task[r][j].stage = "done" /\ task[r][j].buf > MiB20
        /\ ~C26_Called(calls, "file_uploads.create", r, j)

(***************************************************************************)
(* C27: the order of a webhook upload.  A block that references an upload  *)
(* handle is downloaded only in the step in which the handle retrieval is  *)
(* answered; the multipart upload of a block is posted only in the step in *)
(* which its download completes; no block gets a second multipart upload,  *)
(* a block whose upload task completed after a download has exactly one,   *)
(* and a block without any URL has none; every file of a batch is attached *)
(* to the item the matcher returned for the request.                       *)
(***************************************************************************)
C27_Called(cs, op, r, i) ==
    \E c \in cs : c.op = op /\ c.req = r /\ c.ref = i

C27_Posts(r, i) ==
    { c \in calls : c.op = "files.post" /\ c.req = r /\ c.ref = i }

\* the matcher's answer for the page: the exact pass, else the loose pass
C27_Matched ==
    LET exact == findMondayItem(board, PageUrl, TRUE)
    IN  IF exact # 0 \/ variant # "hookCrawlLoose" THEN exact
        ELSE findMondayItem(board, PageUrl, FALSE)

C27_State ==
    variant \in HookVariants =>
        \A r \in Reqs :
            /\ \A i \in 1..Len(task[r]) :
                  /\ (Block(batch[r][i]).src = "file_upload"
                          /\ C27_Called(calls, "download", r, i)) =>
                        C27_Called(calls, "file_uploads.retrieve", r, i)
                  /\ C27_Posts(r, i) # {} =>
                        /\ C27_Called(calls, "download", r, i)
                        /\ task[r][i].buf >= 0
                  /\ Cardinality(C27_Posts(r, i)) <= 1
                  /\ \A c \in C27_Posts(r, i) : c.nth = 1
                  /\ (task[r][i].stage = "done" /\ task[r][i].buf >= 0) =>
                        Cardinality(C27_Posts(r, i)) = 1
                  /\ Block(batch[r][i]).src = "none" => C27_Posts(r, i) = {}
            /\ task[r] # <<>> => item[r] = C27_Matched /\ item[r] # 0
            /\ \A e \in itemFiles : e.by[1] = r => e.item = C27_Matched

C27_Step ==
    variant \in HookVariants =>
        \A r \in Reqs : \A i \in 1..Len(task[r]) :
            /\ (Block(batch[r][i]).src = "file_upload"
                    /\ ~C27_Called(calls, "download", r, i)
                    /\ C27_Called(calls', "download", r, i)) =>
                  /\ C27_Called(calls, "file_uploads.retrieve", r, i)
                  /\ task[r][i].stage = "deref"
            /\ (~C27_Called(calls, "files.post", r, i)
                    /\ C27_Called(calls', "files.post", r, i)) =>
                  /\ C27_Called(calls, "download", r, i)
                  /\ task[r][i].stage = "dl" /\ task[r][i].buf = -1
                  /\ task'[r][i].buf >= 0

C27_UploadOrder == []C27_State /\ [][C27_Step]_vars

\* a block that references an upload handle has been dereferenced,
\* downloaded, posted once and attached to the matched item
C27_Witness ==
    \E r \in Reqs : \E i \in 1..Len(task[r]) :
        /\ variant \in HookVariants
        /\ Block(batch[r][i]).src = "file_upload"
        /\ task[r][i].stage = "done"
        /\ C27_Called(calls, "file_uploads.retrieve", r, i)
        /\ Cardinality(C27_Posts(r, i)) = 1
        /\ \E e \in itemFiles : e.by = <<r, i>> /\ e.item = C27_Matched

\* as stated: every block of a batch gets exactly one multipart upload
C27_AsStated ==
    variant \in HookVariants =>
        \A r \in Reqs : \A i \in 1..Len(task[r]) :
            task[r][i].stage = "done" => Cardinality(C27_Posts(r, i)) = 1

(***************************************************************************)
(* C28: what the crawler returns.  The place of a block on the page is the *)
(* path of child positions that leads to it from the page; a block's level *)
(* is the length of its path, and depth-first pre-order is the             *)
(* lexicographic order of the paths, a path coming before its extensions.  *)
(* The sequence the crawling handlers collect holds every block of the     *)
(* three visited levels whose type is image, video, file, pdf or audio,    *)
(* each once, no other block, in that order.                               *)
(***************************************************************************)
RECURSIVE C28_Flat(_)
C28_Flat(pages) ==
    IF pages = <<>> THEN <<>> ELSE Head(pages) \o C28_Flat(Tail(pages))

C28_Kids(p) == C28_Flat(ChildPages(p))

C28_IsKid(b, p) == \E k \in 1..Len(C28_Kids(p)) : C28_Kids(p)[k] = b

C28_OnPage == { b \in BlockIds : \E p \in {RootPage} \cup BlockIds : C28_IsKid(b, p) }

RECURSIVE C28_Path(_)
C28_Path(b) ==
    IF b = RootPage THEN <<>>
    ELSE LET p == CHOOSE q \in {RootPage} \cup BlockIds : C28_IsKid(b, q)
             k == CHOOSE n \in 1..Len(C28_Kids(p)) : C28_Kids(p)[n] = b
         IN  Append(C28_Path(p), k)

\* path x comes before path y in depth-first pre-order
C28_Before(x, y) ==
    \/ Len(x) < Len(y) /\ SubSeq(y, 1, Len(x)) = x
    \/ \E n \in 1..Len(x) :
          /\ n <= Len(y)
          /\ SubSeq(x, 1, n - 1) = SubSeq(y, 1, n - 1)
          /\ x[n] < y[n]

C28_Expected ==
    { b \in C28_OnPage :
        /\ Len(C28_Path(b)) <= MaxDepth + 1
        /\ Block(b).type \in {"image", "video", "file", "pdf", "audio"} }

C28_Good(out) ==
    /\ { out[k] : k \in 1..Len(out) } = C28_Expected
    /\ \A k, l \in 1..Len(out) :
          k < l => C28_Before(C28_Path(out[k]), C28_Path(out[l]))

C28_CrawlerOutput ==
    variant \in CrawlVariants =>
        \A r \in Reqs :
            (media[r] # <<>> \/ task[r] # <<>>
                \/ (status[r] = 200 /\ reply[r] = "nothing new")) =>
                    C28_Good(media[r])

\* a crawl has returned a nested block between its parent and its parent's
\* later sibling, and has left out the toggle and the block of level 3
C28_Witness ==
    \E r \in Reqs :
        /\ variant \in CrawlVariants
        /\ Len(media[r]) >= 4
        /\ \E k \in 1..Len(media[r]) - 2 :
              /\ C28_IsKid(media[r][k + 1], media[r][k])
              /\ C28_IsKid(media[r][Len(media[r])], RootPage)
        /\ \E b \in C28_OnPage : Len(C28_Path(b)) > MaxDepth + 1
        /\ task[r] # <<>>

(***************************************************************************)
(* C29: the recursion guard.  Every child listing is for the page itself   *)
(* or for a block that is marked as having children and that a listing of  *)
(* its parent, issued earlier by the same request, returned; a block not   *)
(* marked as having children is never listed, media or not, at any level.  *)
(***************************************************************************)
C29_Listed(cs, r, b) ==
    \E c \in cs : c.op = "blocks.list" /\ c.req = r /\ c.ref = b

C29_State ==
    \A c \in calls :
        (c.op = "blocks.list" /\ c.ref # RootPage) =>
            /\ c.ref \in BlockIds
            /\ Block(c.ref).has_children
            /\ \E p \in {RootPage} \cup BlockIds :
                  /\ \E k \in 1..Len(ChildPages(p)) :
                        \E n \in 1..Len(ChildPages(p)[k]) :
                            /\ ChildPages(p)[k][n] = c.ref
                            /\ \E d \in calls :
                                  /\ d.op = "blocks.list" /\ d.req = c.req
                                  /\ d.ref = p /\ d.page = k

C29_Step ==
    \A r \in Reqs : \A b \in BlockIds :
        (~C29_Listed(calls, r, b) /\ C29_Listed(calls', r, b)) =>
            /\ Block(b).has_children
            /\ \E p \in {RootPage} \cup BlockIds :
                  /\ C29_Listed(calls, r, p)
                  /\ \E k \in 1..Len(ChildPages(p)) :
                        \E n \in 1..Len(ChildPages(p)[k]) : ChildPages(p)[k][n] = b

C29_RecursionGuard == []C29_State /\ [][C29_Step]_vars

\* a crawl has ended: it listed the nested blocks that have children, and
\* neither the toggle nor the video of the page, which have none
C29_Witness ==
    \E r \in Reqs :
        /\ variant \in CrawlVariants
        /\ task[r] # <<>>
        /\ C29_Listed(calls, r, 1) /\ C29_Listed(calls, r, 2)
        /\ Block(ToggleBlock).type = "toggle" /\ ~C29_Listed(calls, r, ToggleBlock)
        /\ Block(VideoBlock).type = "video" /\ ~C29_Listed(calls, r, VideoBlock)
        /\ \E k \in 1..Len(media[r]) : media[r][k] = VideoBlock

(***************************************************************************)
(* C30: the matcher's place in the webhook handler.  The exact query is    *)
(* issued in the step in which the page retrieval is answered; the first   *)
(* child listing is issued in the step in which a query is answered with   *)
(* an item; the loose query is issued only by the module that has a loose  *)
(* pass, in the step in which the exact query is answered, and only when   *)
(* no row of the board holds the page's URL exactly; when a row does, its  *)
(* item is the one the request holds and every file of the request is      *)
(* attached to it.                                                         *)
(***************************************************************************)
C30_Asked(cs, r, pass) ==
    \E c \in cs : c.op = "items.match" /\ c.req = r /\ c.ref = pass

C30_Has(cs, r, op) == \E c \in cs : c.op = op /\ c.req = r

\* the rows of the board whose column holds the page's URL exactly
C30_ExactRows ==
    { k \in 1..Len(BoardRows(board)) : BoardRows(board)[k].text = PageUrl }

C30_State ==
    variant \in HookVariants =>
        \A r \in Reqs :
            /\ C30_Has(calls, r, "items.match") =>
                  C30_Has(calls, r, "pages.retrieve") /\ C30_Asked(calls, r, 1)
            /\ C30_Has(calls, r, "blocks.list") =>
                  C30_Asked(calls, r, 1) /\ item[r] # 0
            /\ (task[r] # <<>> \/ \E e \in itemFiles : e.by[1] = r) =>
                  C30_Has(calls, r, "blocks.list")
            /\ C30_Asked(calls, r, 2) =>
                  variant = "hookCrawlLoose" /\ C30_ExactRows = {}
            /\ C30_ExactRows # {} =>
                  /\ item[r] \in {0, BoardRows(board)[1].id}
                  /\ \A e \in itemFiles :
                        e.by[1] = r => e.item = BoardRows(board)[1].id

C30_Step ==
    variant \in HookVariants =>
        \A r \in Reqs :
            /\ (~C30_Asked(calls, r, 1) /\ C30_Asked(calls', r, 1)) =>
                  pc[r] = "page" /\ C30_Has(calls, r, "pages.retrieve")
            /\ (~C30_Asked(calls, r, 2) /\ C30_Asked(calls', r, 2)) =>
                  pc[r] = "match" /\ C30_Asked(calls, r, 1)
            /\ (~C30_Has(calls, r, "blocks.list")
                    /\ C30_Has(calls', r, "blocks.list")) =>
                  /\ pc[r] \in {"match", "match2"}
                  /\ item[r] = 0 /\ item'[r] # 0
            /\ item[r] # 0 => item'[r] = item[r]

C30_MatcherOrder == []C30_State /\ [][C30_Step]_vars

\* the loose pass was queried after the exact pass found nothing, its item
\* was used for the crawl and a file of the request is attached to it
C30_Witness ==
    \E r \in Reqs :
        /\ variant = "hookCrawlLoose"
        /\ C30_ExactRows = {}
        /\ C30_Asked(calls, r, 1) /\ C30_Asked(calls, r, 2)
        /\ C30_Has(calls, r, "blocks.list")
        /\ \E e \in itemFiles : e.by[1] = r /\ e.item = item[r]

(***************************************************************************)
(* The warm process after a first delivery was processed successfully:     *)
(* request 1 was matched to an item, collected the page's media, marked    *)
(* and uploaded every block and answered { ok:true, added }.  The second   *)
(* delivery has not arrived yet.                                           *)
(***************************************************************************)
ContentUpdate == Event("POST", Str("page.content_updated"), Undef, Undef)

\* the item the matcher of the module finds for the page
FirstItem ==
    LET exact == findMondayItem(board, PageUrl, TRUE)
    IN  IF exact # 0 \/ variant # "hookCrawlLoose" THEN exact
        ELSE findMondayItem(board, PageUrl, FALSE)

\* the remote calls of the first delivery
FirstCalls ==
    {Call("pages.retrieve", 1, 0, <<>>), Call("items.match", 1, 1, <<PageUrl>>)}
    \cup (IF findMondayItem(board, PageUrl, TRUE) = 0
          THEN {Call("items.match", 1, 2, <<ToLower(PageUrl)>>)} ELSE {})
    \cup { ListCall(1, Plan.log[k][1], Plan.log[k][2]) : k \in 1..Len(Plan.log) }
    \cup UNION { (IF Block(Plan.out[i]).src = "file_upload"
                  THEN {Call("file_uploads.retrieve", 1, i, <<>>)} ELSE {})
                 \cup (IF Block(Plan.out[i]).src # "none"
                       THEN {Call("download", 1, i, <<>>),
                             Call("files.post", 1, i, <<>>)}
                       ELSE {}) : i \in 1..Len(Plan.out) }

RedeliveryInit ==
    /\ TrimIdle
    /\ variant \in HookVariants
    /\ board \in Boards
    /\ bare \in BOOLEAN
    /\ FirstItem # 0
    /\ variant \in FlatVariants => ~bare
    /\ pc = [r \in Reqs |-> IF r = 1 THEN "done" ELSE "idle"]
    /\ input = [r \in Reqs |-> IF r = 1 THEN ContentUpdate
                                ELSE Event("POST", Undef, Undef, Undef)]
    /\ status = [r \in Reqs |-> IF r = 1 THEN 200 ELSE 0]
    /\ reply = [r \in Reqs |-> IF r = 1 THEN "ok" ELSE ""]
    /\ added = [r \in Reqs |-> IF r = 1 THEN Len(Plan.out) ELSE -1]
    /\ batch = [r \in Reqs |-> IF r = 1 THEN Plan.out ELSE <<>>]
    /\ task = [r \in Reqs |->
                 IF r = 1
                 THEN [i \in 1..Len(Plan.out) |->
                         [stage |-> "done",
                          buf   |-> IF Block(Plan.out[i]).src = "none"
                                    THEN -1 ELSE 1000,
                          up    |-> "none"]]
                 ELSE <<>>]
    /\ waiting = <<>>
    /\ newFiles = [r \in Reqs |-> <<>>]
    /\ calls = FirstCalls
    /\ existing = [r \in Reqs |-> <<>>]
    /\ pageFiles = NoPage
    /\ pageBlocks = <<>>
    /\ SEEN = Marked({}, Plan.out)
    /\ media = [r \in Reqs |-> IF r = 1 THEN Plan.out ELSE <<>>]
    /\ crawlAt = [r \in Reqs |-> IF r = 1 THEN Len(Plan.log) ELSE 0]
    /\ item = [r \in Reqs |-> IF r = 1 THEN FirstItem ELSE 0]
    /\ itemFiles = { [item |-> FirstItem, block |-> Plan.out[i], by |-> <<1, i>>] :
                       i \in { j \in 1..Len(Plan.out) :
                                   Block(Plan.out[j]).src # "none" } }
    /\ faults = 0

RedeliveryNext == \E r \in Reqs : CrawlerHandlerNext(r)

SpecRedelivery == RedeliveryInit /\ [][RedeliveryNext]_vars

(***************************************************************************)
(* C31: re-delivery is idempotent.  In the warm process that has answered  *)
(* a first delivery with { ok:true }, a second delivery of the same event  *)
(* submits no task and issues no handle retrieval, download or multipart   *)
(* upload; no step changes the Seen-set or the files of the item; and the  *)
(* answer, unless a remote call of the second delivery failed, is 200      *)
(* 'nothing new'.                                                          *)
(***************************************************************************)
C31_Again(q) == q # 1 /\ input[q] = input[1] /\ pc[q] # "idle"

C31_State ==
    \A q \in Reqs :
        C31_Again(q) =>
            /\ batch[q] = <<>> /\ task[q] = <<>> /\ waiting = <<>>
            /\ \A c \in calls :
                  c.req = q => c.op \in {"pages.retrieve", "items.match",
                                         "blocks.list"}
            /\ \A e \in itemFiles : e.by[1] = 1
            /\ status[q] # 0 =>
                  \/ status[q] = 200 /\ reply[q] = "nothing new" /\ added[q] = -1
                  \/ status[q] = 500 /\ faults > 0

C31_Step == SEEN' = SEEN /\ itemFiles' = itemFiles

C31_Idempotent == []C31_State /\ [][C31_Step]_vars

\* the second delivery of the event was answered 'nothing new' after it
\* retrieved the page, found the item and collected the same media blocks
C31_Witness ==
    \E q \in Reqs :
        /\ C31_Again(q)
        /\ status[1] = 200 /\ reply[1] = "ok" /\ added[1] >= 2
        /\ status[q] = 200 /\ reply[q] = "nothing new"
        /\ media[q] = media[1] /\ item[q] = item[1]
        /\ Cardinality(SEEN) >= 2 /\ Cardinality(itemFiles) >= 2

(***************************************************************************)
(* C32: the result does not depend on the interleaving.  The entry of a    *)
(* reference is decided by the reference and by the answers of the remote  *)
(* systems to its own calls (the bytes its URL serves, the answer to its   *)
(* handle creation).  At every moment the entries collected by a request   *)
(* are, as a multiset, the entries of its completed tasks, whatever the    *)
(* order in which the tasks ran; the list written to the page holds, as a  *)
(* set, the entries read from the page and the entries of all references.  *)
(***************************************************************************)
C32_Entry(r, i) ==
    LET a == batch[r][i]
    IN  IF a.bytes <= MiB20 /\ task[r][i].up # "null"
        THEN EmbeddedEntry(variant, r, i, a)
        ELSE LinkedEntry(variant, a)

C32_Done(r) == { i \in 1..Len(task[r]) : task[r][i].stage = "done" }

C32_Set(seq) == { seq[k] : k \in 1..Len(seq) }

C32_State ==
    variant \in FwdVariants =>
        \A r \in Reqs :
            /\ Len(newFiles[r]) = Cardinality(C32_Done(r))
            /\ \A i \in C32_Done(r) :
                  Cardinality({ k \in 1..Len(newFiles[r]) :
                                   newFiles[r][k] = C32_Entry(r, i) })
                    = Cardinality({ j \in C32_Done(r) :
                                       C32_Entry(r, j) = C32_Entry(r, i) })

C32_Step ==
    pageFiles' # pageFiles =>
        \E r \in Reqs :
            /\ pc[r] = "update" /\ pc'[r] = "append"
            /\ C32_Set(pageFiles'.files) =
                  C32_Set(existing[r])
                      \cup { C32_Entry(r, i) : i \in 1..Len(task[r]) }
            /\ Len(pageFiles'.files) = Len(existing[r]) + Len(task[r])

C32_OrderInsensitive == []C32_State /\ [][C32_Step]_vars

\* a batch of three or more references has been merged into the page with
\* its entries in another order than the references were submitted in
C32_Witness ==
    \E r \in Reqs :
        /\ variant \in MergeVariants
        /\ Len(task[r]) >= 3
        /\ C32_Done(r) = 1..Len(task[r])
        /\ \E k \in 1..Len(newFiles[r]) : newFiles[r][k] # C32_Entry(r, k)
        /\ pc[r] \in {"append", "done"}
        /\ C32_Set(newFiles[r]) \subseteq C32_Set(pageFiles.files)

(***************************************************************************)
(* C33: exactly one response.  As stated: a handler that has returned has  *)
(* sent a response; a response, once sent, is never followed by another;   *)
(* and a handler that has not returned is waiting for a remote call that   *)
(* is under way (its own, or those of the tasks that fill the pool), so    *)
(* that it gets its response when the calls return.                        *)
(***************************************************************************)
C33_Returned(r) == pc[r] \in {"done", "threw"}

C33_Awaiting(r) ==
    \/ pc[r] \in {"assets", "retrieve", "update", "append",
                   "page", "match", "match2", "crawl"}
    \/ /\ pc[r] = "batch"
       /\ \E q \in Reqs : \E i \in 1..Len(task[q]) : task[q][i].stage \in InFlight

C33_Once ==
    \A r \in Reqs :
        status[r] # 0 => status'[r] = status[r] /\ reply'[r] = reply[r]

C33_Responds(r) ==
    /\ C33_Returned(r) => status[r] # 0
    /\ (pc[r] # "idle" /\ ~C33_Returned(r)) => status[r] = 0 /\ C33_Awaiting(r)

C33_AsStated == [](\A r \in Reqs : C33_Responds(r)) /\ [][C33_Once]_vars

(***************************************************************************)
(* C34: the reported count.  As stated: when a webhook handler has         *)
(* answered { ok:true, added: n }, the request has posted exactly n        *)
(* multipart uploads, and n counts no block whose task found no URL.       *)
(***************************************************************************)
C34_Posted(r) == { c \in calls : c.req = r /\ c.op = "files.post" }

C34_Resolved(r) == { i \in 1..Len(batch[r]) : Block(batch[r][i]).src # "none" }

C34_AsStated ==
    variant \in HookVariants =>
        \A r \in Reqs :
            (status[r] = 200 /\ reply[r] = "ok") =>
                /\ added[r] = Cardinality(C34_Posted(r))
                /\ added[r] = Cardinality(C34_Resolved(r))

(***************************************************************************)
(* C35: the fallback of the addMedia module.  A rejected handle creation   *)
(* never fails the task: in the step in which the rejection arrives the    *)
(* task completes and pushes an external entry that points at the source   *)
(* URL of the reference; no byte stream is ever sent for the reference;    *)
(* the entry is appended to the page and counted like any other.           *)
(***************************************************************************)
C35_FellBack(r, i) == task[r][i].up = "null"

C35_LinkOf(r, i) ==
    { k \in 1..Len(newFiles[r]) :
        /\ newFiles[r][k].type = "external"
        /\ newFiles[r][k].ptr = batch[r][i].public_url }

C35_State ==
    variant = "addMedia" =>
        \A r \in Reqs : \A i \in 1..Len(task[r]) :
            /\ task[r][i].up # "rejected"
            /\ C35_FellBack(r, i) =>
                  /\ task[r][i].stage = "done"
                  /\ task[r][i].buf = batch[r][i].bytes
                  /\ batch[r][i].bytes <= MiB20
                  /\ \E c \in calls : c.op = "file_uploads.create"
                                        /\ c.req = r /\ c.ref = i
                  /\ \A c \in calls : ~(c.op = "file_uploads.send"
                                          /\ c.req = r /\ c.ref = i)
                  /\ Cardinality(C35_LinkOf(r, i)) = 1
                  /\ \A k \in 1..Len(newFiles[r]) :
                        newFiles[r][k].ptr # <<"file_upload", r, i>>
                  /\ status[r] = 200 =>
                        /\ added[r] = Len(batch[r])
                        /\ \E n \in 1..Len(pageBlocks) :
                              /\ pageBlocks[n].file.type = "external"
                              /\ pageBlocks[n].file.ptr = batch[r][i].public_url
                  /\ status[r] = 500 =>
                        \/ \E j \in 1..Len(task[r]) : task[r][j].stage = "failed"
                        \/ \A j \in 1..Len(task[r]) : task[r][j].stage = "done"

C35_Step ==
    variant = "addMedia" =>
        \A r \in Reqs : \A i \in 1..Len(task[r]) :
            (~C35_FellBack(r, i) /\ task'[r][i].up = "null") =>
                /\ task[r][i].stage = "create"
                /\ task'[r][i].stage = "done"
                /\ newFiles'[r] = Append(newFiles[r],
                       [name |-> newFiles'[r][Len(newFiles'[r])].name,
                        type |-> "external",
                        ptr  |-> batch[r][i].public_url])
                /\ faults' = faults + 1

C35_Fallback == []C35_State /\ [][C35_Step]_vars

\* a batch of the addMedia module was answered 200 with all its references
\* counted, one of them linked after its handle creation was rejected and
\* another one embedded
C35_Witness ==
    \E r \in Reqs : \E i, j \in 1..Len(task[r]) :
        /\ variant = "addMedia"
        /\ C35_FellBack(r, i)
        /\ task[r][j].up = "ok" /\ task[r][j].stage = "done"
        /\ status[r] = 200 /\ added[r] = Len(batch[r])
        /\ \E n \in 1..Len(pageBlocks) :
              /\ pageBlocks[n].file.type = "external"
              /\ pageBlocks[n].file.ptr = batch[r][i].public_url

(***************************************************************************)
(* Two requests on one pool.  Request 1 named the item of four files; one  *)
(* of its first three downloads failed, Promise.all rejected and the       *)
(* handler answered 500, while the three other downloads stay in the pool  *)
(* (queue.add is never cancelled).  Request 2, for the item of two files,  *)
(* has arrived and waits for the answer to its asset query.                *)
(***************************************************************************)
\* the tasks of request 1 when download k has failed: the slot it gave up
\* went to the next task waiting, the tasks behind keep waiting
Started(i) == i <= Concurrency + 1

Leftover(k) ==
    [i \in 1..AssetCount(1) |->
        [stage |-> IF i = k THEN "failed"
                   ELSE IF Started(i) THEN "dl" ELSE "queued",
         buf |-> -1, up |-> "none"]]

LeftWaiting ==
    [n \in 1..(AssetCount(1) - (Concurrency + 1)) |-> <<1, Concurrency + 1 + n>>]

SharedCalls ==
    { Call("assets.query", r, 0, <<>>) : r \in Reqs }
    \cup { Call("download", 1, i, <<>>) : i \in { j \in 1..AssetCount(1) : Started(j) } }

SharedInit ==
    /\ TrimIdle
    /\ variant \in FwdVariants
    /\ board = "exact"
    /\ bare = FALSE
    /\ pc = [r \in Reqs |-> IF r = 1 THEN "done" ELSE "assets"]
    /\ input = [r \in Reqs |-> Request("POST", Num(r), PageId)]
    /\ status = [r \in Reqs |-> IF r = 1 THEN 500 ELSE 0]
    /\ reply = [r \in Reqs |-> IF r = 1 THEN "error" ELSE ""]
    /\ added = [r \in Reqs |-> -1]
    /\ batch = [r \in Reqs |-> IF r = 1 THEN ItemAssets(1) ELSE <<>>]
    /\ \E k \in 1..Concurrency :
          task = [r \in Reqs |-> IF r = 1 THEN Leftover(k) ELSE <<>>]
    /\ waiting = LeftWaiting
    /\ newFiles = [r \in Reqs |-> <<>>]
    /\ calls = SharedCalls
    /\ existing = [r \in Reqs |-> <<>>]
    /\ pageFiles \in InitialPages
    /\ variant \notin MergeVariants => pageFiles = NoPage
    /\ pageBlocks = <<>>
    /\ SEEN = {}
    /\ media = [r \in Reqs |-> <<>>]
    /\ crawlAt = [r \in Reqs |-> 0]
    /\ item = [r \in Reqs |-> 0]
    /\ itemFiles = {}
    /\ faults = 1

SharedHandlerNext(r) ==
    \/ AssetsFound(r)
    \/ RetrieveOk(r)
    \/ UpdateOk(r)
    \/ AppendOk(r)

SharedTaskNext(r, i) ==
    \/ DownloadOk(r, i)
    \/ CreateOk(r, i)
    \/ SendOk(r, i)

SharedNext ==
    \E r \in Reqs : SharedHandlerNext(r) \/ (\E i \in 1..MaxTasks : SharedTaskNext(r, i))

SpecShared == SharedInit /\ [][SharedNext]_vars

(***************************************************************************)
(* C36: the pool is shared by all requests of the process.  The number of  *)
(* transfer tasks in flight, summed over the requests being handled and    *)
(* the requests already answered, never exceeds 3; a task waits only while *)
(* the 3 slots are taken, whoever holds them; and a waiting task starts    *)
(* only in a step that leaves at most 3 in flight, so the tasks left over  *)
(* from a request answered 500 hold back the tasks of the request that     *)
(* came after it.                                                          *)
(***************************************************************************)
C36_InFlight(r) == { i \in DOMAIN task[r] : task[r][i].stage \in InFlight }

C36_Queued(r) == { i \in DOMAIN task[r] : task[r][i].stage = "queued" }

C36_Held == { <<r, i>> \in Reqs \X (1..MaxTasks) : i \in C36_InFlight(r) }

C36_State ==
    /\ Cardinality(C36_Held) <= Concurrency
    /\ (\E r \in Reqs : C36_Queued(r) # {}) => Cardinality(C36_Held) = Concurrency
    /\ \A r \in Reqs :
          C36_Queued(r) # {} /\ Cardinality(C36_InFlight(r)) < Concurrency
             => \E q \in Reqs \ {r} : C36_InFlight(q) # {}

\* a waiting task of r starts only when a slot is given up, by a task of any
\* request, in the same step
C36_Step ==
    \A r \in Reqs : \A i \in DOMAIN task[r] :
        task[r][i].stage = "queued" /\ task'[r][i].stage \in InFlight
           => \E q \in Reqs : \E j \in DOMAIN task[q] :
                 /\ task[q][j].stage \in InFlight
                 /\ task'[q][j].stage \notin InFlight

C36_SharedPool == []C36_State /\ [][C36_Step]_vars

\* request 1 was answered 500 and three of its downloads still hold the three
\* slots; both tasks of request 2 wait
C36_Witness ==
    /\ status[1] = 500
    /\ Cardinality(C36_InFlight(1)) = Concurrency
    /\ pc[2] = "batch"
    /\ Len(task[2]) = AssetCount(2)
    /\ C36_Queued(2) = DOMAIN task[2]

(***************************************************************************)
(* C37: the write to the page is not atomic.  The attachment list is       *)
(* updated by one call and the preview blocks are appended by the next:    *)
(* when the append fails after the update was applied the handler answers  *)
(* 500, nothing is taken back, and the list keeps the entries it read      *)
(* followed by the new ones while no block was appended.  A repetition of  *)
(* the request reads that list and writes it back followed by its own      *)
(* entries, so every file of the item, by name and kind, is on the list    *)
(* twice, and a linked file twice with the same URL.                       *)
(***************************************************************************)
\* the update of r was applied (the append was sent) and r was answered 500
C37_AppendFailed(r) ==
    /\ variant \in MergeVariants
    /\ status[r] = 500
    /\ \E c \in calls : c.op = "blocks.append" /\ c.req = r

\* the update of q was applied
C37_Updated(q) == \E c \in calls : c.op = "blocks.append" /\ c.req = q

\* q repeats the request of r and has read the list r left
C37_Repeats(q, r) ==
    /\ q # r
    /\ C37_AppendFailed(r)
    /\ input[q] = input[r]
    /\ pc[q] \in {"update", "append", "done"}
    /\ existing[q] = existing[r] \o newFiles[r]

C37_Count(seq, name, type) ==
    Cardinality({ k \in DOMAIN seq : seq[k].name = name /\ seq[k].type = type })

C37_State ==
    \A r \in Reqs :
        C37_AppendFailed(r) =>
            /\ reply[r] = "error" /\ added[r] = -1
            /\ Len(newFiles[r]) = Len(batch[r])
            /\ pageFiles.present
            /\ \A q \in Reqs \ {r} :
                  /\ ~C37_Updated(q) =>
                        /\ pageFiles.files = existing[r] \o newFiles[r]
                        /\ pageBlocks = <<>>
                  /\ C37_Repeats(q, r) /\ C37_Updated(q) =>
                        /\ pageFiles.files =
                              (existing[r] \o newFiles[r]) \o newFiles[q]
                        /\ \A k \in DOMAIN newFiles[r] :
                              LET e == newFiles[r][k]
                              IN  /\ C37_Count(pageFiles.files, e.name, e.type) = 2
                                  /\ e.type = "external" =>
                                        Cardinality({ n \in DOMAIN pageFiles.files :
                                                        pageFiles.files[n] = e }) = 2

\* the failure of the append answers 500 and takes nothing back
C37_Step ==
    \A r \in Reqs :
        variant \in MergeVariants /\ pc[r] = "append" /\ status'[r] = 500
           => /\ pc'[r] = "done"
              /\ pageFiles' = pageFiles
              /\ pageBlocks' = pageBlocks

C37_NotAtomic == []C37_State /\ [][C37_Step]_vars

\* the append of request 1 failed, request 2 named the same item and page
\* and its update was applied: the list holds the two files twice
C37_Witness ==
    /\ C37_Repeats(2, 1)
    /\ C37_Updated(2)
    /\ Len(newFiles[1]) = 2 /\ Len(newFiles[2]) = 2
    /\ Len(pageFiles.files) = Len(existing[1]) + 4
    /\ Len(existing[1]) = 2

====
